---- MODULE Spec2Model ----
(***************************************************************************)
(* A model of the spatial-statistics analysis engine of star_handler:      *)
(*   - union-find clustering        (core/matrix_math.py)                  *)
(*   - the partitioner              (core/star_handler.py, classify_star)  *)
(*   - the minimum-size filter      (analyzers/base.py)                    *)
(*   - the parallel executor        (core/parallel.py)                     *)
(*   - the analyzer template        (analyzers/base.py, process)           *)
(*   - the composite analyzer       (analyzers/ribosome_spatial.py)        *)
(*   - the cluster, orientation and radial analyzers (analyzers/)          *)
(* Each part has its own specification over the shared variables; the      *)
(* variables a specification does not use keep their initial value.        *)
(***************************************************************************)
EXTENDS Integers, Sequences, FiniteSets, TLC

VARIABLES
    \* ---- find_particle_clusters ----
    n_particles,        \* adjacency_matrix.shape[0]
    adjacency_matrix,   \* [Idx \X Idx -> BOOLEAN]
    uf,                 \* the UnionFind object: [parent, rank, size]
    pairs,              \* np.where(np.triu(adjacency_matrix, k=1)), zipped
    pair_pos,           \* how many pairs the merge loop has consumed
    clusters,           \* list(cluster_dict.values())
    size_distribution,  \* size -> number of clusters of that size
    cpc,                \* position in find_particle_clusters
    \* ---- classify_star and prepare_star_data ----
    tag_column,         \* the grouping tag of every row of the input table
    partial_match,      \* classify_star's partial_match argument
    star_particles,     \* star_data['particles'], as the rows it holds
    fs,                 \* the files on disk: path -> rows written
    sub_files,          \* the list classify_star returns
    filtered_files,     \* the list _filter_by_particle_count returns
    logs,               \* what the analyzer's logger has been given
    prepare_calls,      \* the prepare_star_data calls made, by output dir
    prep_pc,            \* position in prepare_star_data / classify_star
    \* ---- parallel_process_tomograms ----
    star_files,         \* the list of files submitted
    n_cores,            \* the size of the worker pool
    tasks,              \* the pool's tasks, one per apply_async, in order
    finish_order,       \* the task indices in the order the workers finished
    collected,          \* the values r.get() has returned so far
    par_ret,            \* the list returned
    par_err,            \* the exception raised
    par_pc,             \* position in parallel_process_tomograms
    \* ---- BaseAnalyzer.process ----
    combined_results,   \* the local of process() that it returns
    proc_err,           \* the exception process() raised
    trace,              \* history: the steps of this run, in order
    faults,             \* history: the messages of the failures that occurred
    analysis_type,      \* self.ANALYSIS_TYPE of the analyzer
    proc_pc,            \* position in process()
    \* ---- RibosomeSpatialAnalyzer.run_analysis ----
    processed_star,     \* self.processed_star, as the rows it holds
    self_sub_files,     \* self.sub_files
    results,            \* the local dict: analysis name -> process() result
    report,             \* the sections written to report.txt
    run_logs,           \* what the module's logger has been given
    run_err,            \* the exception run_analysis raised
    started,            \* history: the analyzers whose process() was called
    sub_failed,         \* history: the analyzers whose process() raised
    pool_input,         \* history: the files each process() gave the pool
    run_pc,             \* position in run_analysis
    \* ---- _process_tomogram of a concrete analyzer ----
    coords,             \* the coordinates of the partition being analysed
    \* ---- ClusterAnalyzer: _analyze, _save_tomogram_results, combine ----
    config,             \* self.config: threshold, min_cluster_size
    todo,               \* the tomograms still to be processed, in order
    kd_adjacency,       \* build_adjacency_matrix(coords, threshold)
    analysis,           \* what _analyze returned for the partition
    tomo_results,       \* the (tomogram, results) pairs collected so far
    ca_combined,        \* what _combine_results returned
    data_files,         \* the files _save_data has written: name -> content
    cluster_report,     \* the sections of cluster_report.txt
    ca_logs,            \* what the analyzer's logger has been given
    ca_pc,              \* position in the cluster analysis
    \* ---- OrientationAnalyzer._analyze ----
    eulers,             \* rlnAngleRot, rlnAngleTilt, rlnAnglePsi of each row
    vectors,            \* the direction vector of each particle
    nearest_neighbors,  \* np.argmin(dist, axis=1)
    nearest_distances,  \* np.min(dist, axis=1), squared
    angles,             \* the 'angles' array of the results
    oa_pc,              \* position in _analyze
    \* ---- shell_normalize ----
    sn_hist,            \* hist: the count of every bin
    sn_bins,            \* bins: the bin edges
    sn_box,             \* box_volume: its value and whether it is a numpy float
    sn_n,               \* n_particles
    sn_out,             \* what the call returned or raised
    sn_pc,              \* position in shell_normalize
    \* ---- RadialAnalyzer: _analyze, _save_tomogram_results, combine ----
    rad_config,         \* self.config: bin_size, min_distance, max_distance
    rad_input,          \* the coordinates of every partition, by tomogram
    rad_todo,           \* the tomograms still to be processed, in order
    rad_analysis,       \* what _analyze returned for the partition
    rad_results,        \* the (tomogram, results) pairs collected so far
    rad_files,          \* the files written: name -> content
    rad_combined,       \* what _combine_results returned
    rad_logs,           \* what the analyzer's logger has been given
    rad_err,            \* the exception _combine_results raised
    rad_pc,             \* position in the radial analysis
    \* ---- prepare_star_data before the split: read, shift, scale ----
    star_sections,      \* the sections of the table format_input_star read
    star_coords,        \* rlnCoordinateX/Y/Z of every row
    scaled_by,          \* history: the pixel sizes scale_coord was given
    prepare_err,        \* the exception prepare_star_data raised
    \* ---- a UnionFind object under any calls ----
    uf_last,            \* history: the last call and the object before it
    \* ---- dfs ----
    dfs_clusters,       \* the clusters the recursive dfs collects
    \* ---- OrientationAnalyzer._generate_report ----
    oa_report           \* the sections of orientation_report.txt

clusterVars == <<n_particles, adjacency_matrix, uf, pairs, pair_pos,
                 clusters, size_distribution, cpc>>

prepVars == <<tag_column, partial_match, star_particles, fs, sub_files,
              filtered_files, logs, prepare_calls, prep_pc>>

parVars == <<star_files, n_cores, tasks, finish_order, collected, par_ret,
             par_err, par_pc>>

procVars == <<combined_results, proc_err, trace, faults, analysis_type,
              proc_pc>>

spatialVars == <<processed_star, self_sub_files, results, report, run_logs,
                 run_err, started, sub_failed, pool_input, run_pc>>

partVars == <<coords>>

caVars == <<config, todo, kd_adjacency, analysis, tomo_results,
            ca_combined, data_files, cluster_report, ca_logs, ca_pc>>

oaVars == <<eulers, vectors, nearest_neighbors, nearest_distances, angles,
            oa_pc>>

shellVars == <<sn_hist, sn_bins, sn_box, sn_n, sn_out, sn_pc>>

radVars == <<rad_config, rad_input, rad_todo, rad_analysis, rad_results,
             rad_files, rad_combined, rad_logs, rad_err, rad_pc>>

starVars == <<star_sections, star_coords, scaled_by, prepare_err>>

ufVars == <<uf_last>>

dfsVars == <<dfs_clusters>>

reportVars == <<oa_report>>

vars == <<clusterVars, prepVars, parVars, procVars, spatialVars, partVars,
          caVars, oaVars, shellVars, radVars, starVars, ufVars, dfsVars,
          reportVars>>

\* What each part leaves alone.
outsideCluster == <<prepVars, parVars, procVars, spatialVars, partVars,
    caVars, oaVars, shellVars, radVars, starVars,
    ufVars, dfsVars, reportVars>>

outsidePrepare == <<clusterVars, parVars, procVars, spatialVars, partVars,
    caVars, oaVars, shellVars, radVars, starVars,
    ufVars, dfsVars, reportVars>>

outsideParallel == <<clusterVars, prepVars, procVars, spatialVars, partVars,
    caVars, oaVars, shellVars, radVars, starVars,
    ufVars, dfsVars, reportVars>>

outsideProcess == <<clusterVars, spatialVars, partVars,
    caVars, oaVars, shellVars, radVars, starVars,
    ufVars, dfsVars, reportVars>>

outsideSpatial == <<clusterVars, partVars,
    caVars, oaVars, shellVars, radVars, starVars,
    ufVars, dfsVars, reportVars>>

outsideClusterRun == <<prepVars, parVars, procVars, spatialVars, oaVars,
    shellVars, radVars, starVars,
    ufVars, dfsVars, reportVars>>

outsideOrientation ==
    <<clusterVars, prepVars, parVars, procVars, spatialVars, caVars,
      shellVars, radVars, starVars,
    ufVars, dfsVars, reportVars>>

outsideShell ==
    <<clusterVars, prepVars, parVars, procVars, spatialVars, partVars, caVars,
      oaVars, radVars, starVars,
    ufVars, dfsVars, reportVars>>

outsideRadial ==
    <<clusterVars, prepVars, parVars, procVars, spatialVars, caVars, oaVars,
      shellVars, starVars,
    ufVars, dfsVars, reportVars>>

outsideStarPrepare ==
    <<clusterVars, parVars, procVars, spatialVars, partVars, caVars, oaVars,
      shellVars, radVars,
    ufVars, dfsVars, reportVars>>

outsideUnionFind ==
    <<prepVars, parVars, procVars, spatialVars, partVars, caVars, oaVars,
      shellVars, radVars, starVars, dfsVars, reportVars>>

outsideReport ==
    <<clusterVars, prepVars, parVars, procVars, spatialVars, caVars,
      shellVars, radVars, starVars, ufVars, dfsVars>>

outsideDfs ==
    <<prepVars, parVars, procVars, spatialVars, partVars, caVars, oaVars,
      shellVars, radVars, starVars, ufVars, reportVars>>

\* Largest number of particles of an adjacency matrix.
MaxParticles == 3

Idx(n) == 0 .. (n - 1)

----------------------------------------------------------------------------
(* UnionFind, core/matrix_math.py                                          *)

\* UnionFind.__init__
UnionFindInit(n) ==
    [parent |-> [i \in Idx(n) |-> i],
     rank   |-> [i \in Idx(n) |-> 0],
     size   |-> [i \in Idx(n) |-> 1]]

\* The element reached from x by following k parent pointers.
RECURSIVE Follow(_, _, _)
Follow(parent, x, k) ==
    IF k = 0 THEN x ELSE Follow(parent, parent[x], k - 1)

\* A find that returns the root and compresses no path.
findNoCompress(parent, x) ==
    [parent |-> parent,
     ret |-> Follow(parent, x, Cardinality(DOMAIN parent))]

\* UnionFind.find: the parent list after the call and the value returned.
RECURSIVE find(_, _)
find(parent, x) ==
    IF parent[x] # x
    THEN LET r == find(parent, parent[x])
             p == [r.parent EXCEPT ![x] = r.ret]
         IN [parent |-> p, ret |-> p[x]]
    ELSE [parent |-> parent, ret |-> parent[x]]

\* A union that leaves the sizes as they were.
unionNoSize(u, x, y) ==
    LET fx == find(u.parent, x)
        fy == find(fx.parent, y)
        px0 == fx.ret
        py0 == fy.ret
    IN IF px0 = py0
       THEN [u EXCEPT !.parent = fy.parent]
       ELSE LET swap == u.rank[px0] < u.rank[py0]
                px == IF swap THEN py0 ELSE px0
                py == IF swap THEN px0 ELSE py0
            IN [parent |-> [fy.parent EXCEPT ![py] = px],
                rank |-> IF u.rank[px] = u.rank[py]
                         THEN [u.rank EXCEPT ![px] = u.rank[px] + 1]
                         ELSE u.rank,
                size |-> u.size]

\* A union that always puts y's root under x's root and keeps the ranks.
unionNoRank(u, x, y) ==
    LET fx == find(u.parent, x)
        fy == find(fx.parent, y)
        px == fx.ret
        py == fy.ret
    IN IF px = py
       THEN [u EXCEPT !.parent = fy.parent]
       ELSE [u EXCEPT !.parent = [fy.parent EXCEPT ![py] = px],
                      !.size   = [u.size EXCEPT ![px] = u.size[px] + u.size[py]]]

\* A union that links the element y, not its root, under x's root.
unionNoRoot(u, x, y) ==
    LET fx == find(u.parent, x)
        fy == find(fx.parent, y)
        px == fx.ret
        py == fy.ret
    IN IF px = py
       THEN [u EXCEPT !.parent = fy.parent]
       ELSE [u EXCEPT !.parent = [fy.parent EXCEPT ![y] = px],
                      !.size   = [u.size EXCEPT ![px] = u.size[px] + u.size[py]]]

\* UnionFind.union
union(u, x, y) ==
    LET fx == find(u.parent, x)
        fy == find(fx.parent, y)
        px0 == fx.ret
        py0 == fy.ret
    IN IF px0 = py0
       THEN [u EXCEPT !.parent = fy.parent]
       ELSE LET swap == u.rank[px0] < u.rank[py0]
                px == IF swap THEN py0 ELSE px0
                py == IF swap THEN px0 ELSE py0
                parent1 == [fy.parent EXCEPT ![py] = px]
                size1 == [u.size EXCEPT ![px] = u.size[px] + u.size[py]]
                rank1 == IF u.rank[px] = u.rank[py]
                         THEN [u.rank EXCEPT ![px] = u.rank[px] + 1]
                         ELSE u.rank
            IN [parent |-> parent1, rank |-> rank1, size |-> size1]

\* Largest number of elements of a UnionFind object under any calls.
MaxElements == 4

NoCall == [op |-> "none", x |-> 0, y |-> 0, ret |-> 0,
           before |-> UnionFindInit(0)]

UfIdle == uf_last = NoCall

\* uf.union(x, y) for any two elements
UfUnion ==
    /\ cpc = "object"
    /\ \E x, y \in Idx(n_particles) :
          /\ uf' = union(uf, x, y)
          /\ uf_last' = [op |-> "union", x |-> x, y |-> y, ret |-> 0,
                         before |-> uf]
    /\ UNCHANGED <<n_particles, adjacency_matrix, pairs, pair_pos, clusters,
                   size_distribution, cpc>>

\* uf.find(x) for any element
UfFind ==
    /\ cpc = "object"
    /\ \E x \in Idx(n_particles) :
          LET f == find(uf.parent, x)
          IN /\ uf' = [uf EXCEPT !.parent = f.parent]
             /\ uf_last' = [op |-> "find", x |-> x, y |-> x, ret |-> f.ret,
                            before |-> uf]
    /\ UNCHANGED <<n_particles, adjacency_matrix, pairs, pair_pos, clusters,
                   size_distribution, cpc>>

UnionFindNext ==
    \/ UfUnion /\ UNCHANGED outsideUnionFind
    \/ UfFind /\ UNCHANGED outsideUnionFind

----------------------------------------------------------------------------
(* find_particle_clusters, core/matrix_math.py                             *)

\* zip(*np.where(np.triu(adjacency_matrix, k=1))): the true entries strictly
\* above the diagonal, in row-major order.
RECURSIVE TriuFrom(_, _, _)
TriuFrom(adj, n, c) ==
    IF c >= n * n THEN <<>>
    ELSE LET i == c \div n
             j == c % n
         IN (IF i < j /\ adj[<<i, j>>] THEN <<(<<i, j>>)>> ELSE <<>>)
            \o TriuFrom(adj, n, c + 1)

TriuPairs(adj, n) == TriuFrom(adj, n, 0)

\* The collection loop: cluster_dict as its (root, members) items in
\* insertion order, each find compressing paths as it goes.
RECURSIVE CollectFrom(_, _, _, _)
CollectFrom(parent, dict, i, n) ==
    IF i >= n THEN [parent |-> parent, dict |-> dict]
    ELSE LET f == find(parent, i)
             root == f.ret
             known == {k \in 1 .. Len(dict) : dict[k].root = root}
             dict1 == IF known = {}
                      THEN Append(dict, [root |-> root, members |-> <<i>>])
                      ELSE [k \in 1 .. Len(dict) |->
                              IF dict[k].root = root
                              THEN [dict[k] EXCEPT !.members = Append(@, i)]
                              ELSE dict[k]]
         IN CollectFrom(f.parent, dict1, i + 1, n)

\* A collection loop that stops one particle short.
CollectShort(parent, n) ==
    CollectFrom(parent, <<>>, 0, IF n > 0 THEN n - 1 ELSE 0)

CollectClusters(parent, n) == CollectFrom(parent, <<>>, 0, n)

\* size_distribution: cluster size -> count of clusters of that size.
SizeDistribution(cl) ==
    LET sizes == {Len(cl[k]) : k \in 1 .. Len(cl)}
    IN [s \in sizes |-> Cardinality({k \in 1 .. Len(cl) : Len(cl[k]) = s})]

ClusterIdle ==
    /\ n_particles = 0
    /\ adjacency_matrix = <<>>
    /\ uf = UnionFindInit(0)
    /\ pairs = <<>>
    /\ pair_pos = 0
    /\ clusters = <<>>
    /\ size_distribution = <<>>
    /\ cpc = "idle"

\* Entry of find_particle_clusters: any boolean matrix of any size.
ClusterInit ==
    /\ n_particles \in 0 .. MaxParticles
    /\ adjacency_matrix \in [Idx(n_particles) \X Idx(n_particles) -> BOOLEAN]
    /\ uf = UnionFindInit(n_particles)
    /\ pairs = TriuPairs(adjacency_matrix, n_particles)
    /\ pair_pos = 0
    /\ clusters = <<>>
    /\ size_distribution = <<>>
    /\ cpc = "merge"

\* One iteration of "for i, j in zip(*pairs): uf.union(i, j)".
MergePair ==
    /\ cpc = "merge"
    /\ pair_pos < Len(pairs)
    /\ uf' = union(uf, pairs[pair_pos + 1][1], pairs[pair_pos + 1][2])
    /\ pair_pos' = pair_pos + 1
    /\ UNCHANGED <<n_particles, adjacency_matrix, pairs, clusters,
                   size_distribution, cpc>>

\* The collection loop, the size distribution and the return.
Collect ==
    /\ cpc = "merge"
    /\ pair_pos = Len(pairs)
    /\ LET c == CollectClusters(uf.parent, n_particles)
           cl == [k \in 1 .. Len(c.dict) |-> c.dict[k].members]
       IN /\ uf' = [uf EXCEPT !.parent = c.parent]
          /\ clusters' = cl
          /\ size_distribution' = SizeDistribution(cl)
    /\ cpc' = "done"
    /\ UNCHANGED <<n_particles, adjacency_matrix, pairs, pair_pos>>

ClusterNext ==
    \/ MergePair /\ UNCHANGED outsideCluster
    \/ Collect /\ UNCHANGED outsideCluster

\* UnionFind(n): a new object, on which any calls follow.
UfInit ==
    /\ n_particles \in 0 .. MaxElements
    /\ uf = UnionFindInit(n_particles)
    /\ uf_last = NoCall
    /\ adjacency_matrix = <<>>
    /\ pairs = <<>>
    /\ pair_pos = 0
    /\ clusters = <<>>
    /\ size_distribution = <<>>
    /\ cpc = "object"

----------------------------------------------------------------------------
(* Strings, as sequences of characters                                     *)

\* str.replace(a, b) for single characters
Replace(s, a, b) == [i \in 1 .. Len(s) |-> IF s[i] = a THEN b ELSE s[i]]

\* str.split(sep): the pieces between the occurrences of sep
RECURSIVE Split(_, _)
Split(s, sep) ==
    LET pos == {i \in 1 .. Len(s) : s[i] = sep}
    IN IF pos = {} THEN <<s>>
       ELSE LET q == CHOOSE i \in pos : \A j \in pos : i <= j
            IN <<SubSeq(s, 1, q - 1)>> \o Split(SubSeq(s, q + 1, Len(s)), sep)

\* sep.join(parts)
RECURSIVE Join(_, _)
Join(parts, sep) ==
    IF Len(parts) = 0 THEN <<>>
    ELSE IF Len(parts) = 1 THEN parts[1]
    ELSE parts[1] \o <<sep>> \o Join(Tail(parts), sep)

\* parts[:k]
Take(parts, k) == SubSeq(parts, 1, IF k < Len(parts) THEN k ELSE Len(parts))

\* A tag value: a string, or a number with its str() text.
StrValue(t) == [isStr |-> TRUE, text |-> t]
NumValue(t) == [isStr |-> FALSE, text |-> t]

\* The string tag values of the input tables: tomogram names with and
\* without an extension, a directory part, an underscore.
StrTags ==
    {StrValue(<<"T", "1">>), StrValue(<<"T", "2">>),
     StrValue(<<"T", "1", ".", "2">>), StrValue(<<"T", "/", "1">>),
     StrValue(<<"T", "/", "2">>), StrValue(<<"T", "_", "1">>)}

\* The numeric tag values (a class number).
NumTags == {NumValue(<<"1">>), NumValue(<<"2">>)}

\* Largest number of rows of an input table.
MaxRows == 4

\* min_particles, as prepare_star_data passes it.
MinParticles == 3

PartialMatchValues == {-1, 1, 2}

----------------------------------------------------------------------------
(* classify_star, core/star_handler.py (core/selection.py holds the same)  *)

\* '/'.join(str(x).split('/')[:partial_match])
PartialKey(x, pm) == StrValue(Join(Take(Split(x.text, "/"), pm), "/"))

\* The grouping key of a row's tag value.
GroupKey(x, pm) == IF pm > 0 THEN PartialKey(x, pm) ELSE x

\* Series.unique(): the distinct values in order of first appearance
RECURSIVE Unique(_)
Unique(col) ==
    IF col = <<>> THEN <<>>
    ELSE LET front == Unique(SubSeq(col, 1, Len(col) - 1))
             last == col[Len(col)]
         IN IF \E k \in 1 .. Len(front) : front[k] = last
            THEN front ELSE Append(front, last)

\* particles[<key of the row> == value]: the matching rows, in table order
RECURSIVE SubsetFrom(_, _, _, _)
SubsetFrom(tags, pm, value, r) ==
    IF r > Len(tags) THEN <<>>
    ELSE (IF GroupKey(tags[r], pm) = value THEN <<r>> ELSE <<>>)
         \o SubsetFrom(tags, pm, value, r + 1)

Subset(tags, pm, value) == SubsetFrom(tags, pm, value, 1)

\* output_name: value.replace('/', '_').split('.')[0] for a string value,
\* str(value) for any other.
OutputName(value) ==
    IF value.isStr
    THEN Split(Replace(value.text, "/", "_"), ".")[1]
    ELSE value.text

\* output_dir / f"{output_name}.star"
SubFile(out_dir, value) ==
    [dir |-> out_dir, file |-> OutputName(value) \o <<".", "star">>]

\* Path.stem: the file name without its last suffix
Stem(path) ==
    LET dots == {i \in 2 .. Len(path.file) : path.file[i] = "."}
    IN IF dots = {} THEN path.file
       ELSE SubSeq(path.file, 1,
                   (CHOOSE i \in dots : \A j \in dots : j <= i) - 1)

\* format_output_star: the file now holds these rows
WriteFile(files, path, rows) ==
    [q \in DOMAIN files \cup {path} |-> IF q = path THEN rows ELSE files[q]]

\* Path.unlink(missing_ok=True)
Unlink(files, path) == [q \in DOMAIN files \ {path} |-> files[q]]

\* The loop over the values: each iteration takes its subset of the table,
\* rebinds star_data['particles'] to it and writes the sub-file.
RECURSIVE ClassifyLoop(_, _, _, _, _, _)
ClassifyLoop(tags, pm, out_dir, values, k, st) ==
    IF k > Len(values) THEN st
    ELSE LET subset == Subset(tags, pm, values[k])
             sub_file == SubFile(out_dir, values[k])
         IN ClassifyLoop(tags, pm, out_dir, values, k + 1,
                [fs |-> WriteFile(st.fs, sub_file, subset),
                 particles |-> subset,
                 sub_files |-> Append(st.sub_files, sub_file)])

\* classify_star(star_data, tag, partial_match, output_dir): the files after
\* the call, star_data['particles'] after the call, the list returned.
classify_star(tags, particles, pm, out_dir, files) ==
    LET values == Unique([r \in 1 .. Len(tags) |-> GroupKey(tags[r], pm)])
    IN ClassifyLoop(tags, pm, out_dir, values, 1,
            [fs |-> files, particles |-> particles, sub_files |-> <<>>])

----------------------------------------------------------------------------
(* BaseAnalyzer.prepare_star_data and _filter_by_particle_count            *)

\* self.output_dir of an analyzer: output_dir / ANALYSIS_TYPE
OutputDir(atype) == <<atype>>

\* self.output_dir / sub_dir_name
SubDir(atype) == <<atype, "sub_files">>

\* self.output_dir / output_file_name
ProcessedFile(atype) ==
    [dir |-> OutputDir(atype), file |-> <<"processed", ".", "star">>]

\* The loop of _filter_by_particle_count over the sub-files.
RECURSIVE FilterLoop(_, _, _, _)
FilterLoop(files_in, k, min_particles, st) ==
    IF k > Len(files_in) THEN st
    ELSE LET sub_file == files_in[k]
         IN IF sub_file \notin DOMAIN st.fs
            THEN \* format_input_star raises: warn, skip, unlink
                 FilterLoop(files_in, k + 1, min_particles,
                    [st EXCEPT
                       !.logs = Append(@, [level |-> "warning",
                                           what |-> "Error reading",
                                           name |-> Stem(sub_file)]),
                       !.skipped = Append(@, Stem(sub_file)),
                       !.fs = Unlink(@, sub_file)])
            ELSE IF Len(st.fs[sub_file]) >= min_particles
            THEN FilterLoop(files_in, k + 1, min_particles,
                    [st EXCEPT !.filtered = Append(@, sub_file)])
            ELSE FilterLoop(files_in, k + 1, min_particles,
                    [st EXCEPT
                       !.skipped = Append(@, Stem(sub_file)),
                       !.logs = Append(@, [level |-> "info",
                                           what |-> "Skipping",
                                           name |-> Stem(sub_file)]),
                       !.fs = Unlink(@, sub_file)])

\* _filter_by_particle_count(sub_files, min_particles)
filter_by_particle_count(files_in, min_particles, files, log) ==
    LET st == FilterLoop(files_in, 1, min_particles,
                  [fs |-> files, filtered |-> <<>>, skipped |-> <<>>,
                   logs |-> log])
        l1 == IF st.skipped # <<>>
              THEN Append(st.logs, [level |-> "info", what |-> "Filtered out",
                                    names |-> st.skipped])
              ELSE st.logs
    IN [st EXCEPT !.logs = Append(l1, [level |-> "info",
                                       what |-> "Proceeding",
                                       kept |-> Len(st.filtered),
                                       dropped |-> Len(st.skipped)])]

AllRows(tags) == [r \in 1 .. Len(tags) |-> r]

Tables(tagset, maxrows) == UNION {[1 .. k -> tagset] : k \in 0 .. maxrows}

PrepIdle ==
    /\ tag_column = <<>>
    /\ partial_match = -1
    /\ star_particles = <<>>
    /\ fs = <<>>
    /\ sub_files = <<>>
    /\ filtered_files = <<>>
    /\ logs = <<>>
    /\ prepare_calls = <<>>
    /\ prep_pc = "idle"

\* An input table read from a STAR file: its tag column holds strings or
\* holds numbers.
PrepInit ==
    /\ tag_column \in Tables(StrTags, MaxRows) \cup Tables(NumTags, MaxRows)
    /\ partial_match = -1
    /\ star_particles = AllRows(tag_column)
    /\ fs = <<>>
    /\ sub_files = <<>>
    /\ filtered_files = <<>>
    /\ logs = <<>>
    /\ prepare_calls = <<>>
    /\ prep_pc = "start"

\* A direct call classify_star(star_data, tag, partial_match, output_dir).
ClassifyStarCall ==
    /\ prep_pc = "start"
    /\ \E pm \in PartialMatchValues :
         LET c == classify_star(tag_column, star_particles, pm,
                                <<"sub_folder">>, fs)
         IN /\ partial_match' = pm
            /\ fs' = c.fs
            /\ star_particles' = c.particles
            /\ sub_files' = c.sub_files
    /\ prep_pc' = "classify_returned"
    /\ UNCHANGED <<tag_column, filtered_files, logs, prepare_calls>>

\* prepare_star_data up to the return of classify_star: the processed table
\* is written, then split by rlnMicrographName with the default (exact)
\* match.
PrepareClassify(atype) ==
    /\ prep_pc = "start"
    /\ LET written == WriteFile(fs, ProcessedFile(atype), star_particles)
           c == classify_star(tag_column, star_particles, -1,
                              SubDir(atype), written)
       IN /\ fs' = c.fs
          /\ star_particles' = c.particles
          /\ sub_files' = c.sub_files
    /\ prepare_calls' = Append(prepare_calls, OutputDir(atype))
    /\ prep_pc' = "classified"
    /\ UNCHANGED <<tag_column, partial_match, filtered_files, logs>>

\* prepare_star_data from the call of _filter_by_particle_count to its return.
PrepareFilter ==
    /\ prep_pc = "classified"
    /\ LET f == filter_by_particle_count(sub_files, MinParticles, fs, logs)
       IN /\ fs' = f.fs
          /\ filtered_files' = f.filtered
          /\ logs' = f.logs
    /\ prep_pc' = "prepared"
    /\ UNCHANGED <<tag_column, partial_match, star_particles, sub_files,
                   prepare_calls>>

PrepNext ==
    \/ ClassifyStarCall /\ UNCHANGED outsidePrepare
    \/ PrepareClassify("radial") /\ UNCHANGED outsidePrepare
    \/ PrepareFilter /\ UNCHANGED outsidePrepare

----------------------------------------------------------------------------
(* Exceptions: a type and a message, the message as a list of pieces       *)

None == [type |-> "None", msg |-> <<>>]

Raised(type, text) == [type |-> type, msg |-> text]

\* SomeError(f"{prefix}{str(e)}")
Wrap(type, prefix, e) == [type |-> type, msg |-> <<prefix>> \o e.msg]

----------------------------------------------------------------------------
(* parallel_process_tomograms, core/parallel.py (core/star_handler.py      *)
(* holds the same function)                                                *)

\* Largest number of files submitted in one call.
MaxFiles == 3

\* Largest cpu_count() of the machine.
MaxCpus == 4

\* n_cores = max(1, cpu_count() - 1)
NCores(cpus) == IF cpus - 1 > 1 THEN cpus - 1 ELSE 1

Running == {i \in 1 .. Len(tasks) : tasks[i].status = "running"}

Finished(i) == tasks[i].status \in {"ok", "err"}

\* The future the list comprehension blocks on next: the results list is
\* walked in submission order.
NextGetUnordered ==
    IF Len(finish_order) > Len(collected)
    THEN finish_order[Len(collected) + 1]
    ELSE Len(collected) + 1

NextGet == Len(collected) + 1

\* A get() that hands back a failed task's exception as if it were a value.
GetSwallow(task) == [raised |-> FALSE, value |-> task.value]

\* AsyncResult.get(): the value, or the worker's exception re-raised.
Get(task) == [raised |-> task.status = "err", value |-> task.value]

ParIdle ==
    /\ star_files = <<>>
    /\ n_cores = 1
    /\ tasks = <<>>
    /\ finish_order = <<>>
    /\ collected = <<>>
    /\ par_ret = <<>>
    /\ par_err = None
    /\ par_pc = "idle"

\* Entry with the pool created: Pool(n_cores).
ParEnter(files, cpus) ==
    /\ star_files' = files
    /\ n_cores' = NCores(cpus)
    /\ tasks' = <<>>
    /\ finish_order' = <<>>
    /\ collected' = <<>>
    /\ par_ret' = <<>>
    /\ par_err' = None
    /\ par_pc' = "in_pool"

\* One iteration of the submission loop: pool.apply_async(process_func, ...).
Submit ==
    /\ par_pc = "in_pool"
    /\ Len(tasks) < Len(star_files)
    /\ tasks' = Append(tasks, [status |-> "queued",
                               file |-> star_files[Len(tasks) + 1],
                               value |-> None])
    /\ UNCHANGED <<star_files, n_cores, finish_order, collected, par_ret,
                   par_err, par_pc>>

\* A free worker takes the oldest queued task.
WorkerStart(i) ==
    /\ par_pc = "in_pool"
    /\ tasks[i].status = "queued"
    /\ \A j \in 1 .. (i - 1) : tasks[j].status # "queued"
    /\ Cardinality(Running) < n_cores
    /\ tasks' = [tasks EXCEPT ![i].status = "running"]
    /\ UNCHANGED <<star_files, n_cores, finish_order, collected, par_ret,
                   par_err, par_pc>>

\* The worker's call of process_func ends, with a value or an exception.
WorkerEnd(i, status, value) ==
    /\ par_pc = "in_pool"
    /\ tasks[i].status \in {"running", "analyzed"}
    /\ tasks' = [tasks EXCEPT ![i].status = status, ![i].value = value]
    /\ finish_order' = Append(finish_order, i)
    /\ UNCHANGED <<star_files, n_cores, collected, par_ret, par_err, par_pc>>

\* One r.get() of "[r.get() for r in results]", the submission loop done:
\* it blocks until the task has finished, then yields its value or raises,
\* and the raise is caught and re-raised as ProcessingError.
Collect1 ==
    /\ par_pc = "in_pool"
    /\ Len(tasks) = Len(star_files)
    /\ NextGet \in 1 .. Len(tasks)
    /\ Finished(NextGet)
    /\ LET g == Get(tasks[NextGet])
       IN IF g.raised
          THEN /\ par_err' = Wrap("ProcessingError",
                                  "Parallel processing failed: ", g.value)
               /\ par_pc' = "raised"
               /\ UNCHANGED collected
          ELSE /\ collected' = Append(collected, g.value)
               /\ UNCHANGED <<par_err, par_pc>>
    /\ UNCHANGED <<star_files, n_cores, tasks, finish_order, par_ret>>

\* The list comprehension is complete: return it (the pool is torn down).
ParReturn ==
    /\ par_pc = "in_pool"
    /\ Len(tasks) = Len(star_files)
    /\ Len(collected) = Len(tasks)
    /\ par_ret' = collected
    /\ par_pc' = "returned"
    /\ UNCHANGED <<star_files, n_cores, tasks, finish_order, collected,
                   par_err>>

\* A process_func of the caller's: its value for a file, and the exception
\* it raises when it fails on that file.
FuncValue(file) == [tomogram |-> file, results |-> "results"]

FuncError(file) == Raised("Exception", <<"failed on ", file>>)

ParFiles == {"A", "B", "C"}

ParInit ==
    /\ star_files \in UNION {[1 .. k -> ParFiles] : k \in 0 .. MaxFiles}
    /\ n_cores \in {NCores(c) : c \in 1 .. MaxCpus}
    /\ tasks = <<>>
    /\ finish_order = <<>>
    /\ collected = <<>>
    /\ par_ret = <<>>
    /\ par_err = None
    /\ par_pc = "in_pool"

\* The worker runs process_func to its end.
WorkerRun ==
    \E i \in 1 .. Len(tasks) :
        \/ WorkerEnd(i, "ok", FuncValue(tasks[i].file))
        \/ WorkerEnd(i, "err", FuncError(tasks[i].file))

ParNext ==
    \/ Submit /\ UNCHANGED outsideParallel
    \/ (\E i \in 1 .. Len(tasks) : WorkerStart(i))
          /\ UNCHANGED outsideParallel
    \/ WorkerRun /\ UNCHANGED outsideParallel
    \/ Collect1 /\ UNCHANGED outsideParallel
    \/ ParReturn /\ UNCHANGED outsideParallel


----------------------------------------------------------------------------
(* BaseAnalyzer.process and _process_tomogram, analyzers/base.py           *)

\* Largest number of rows of the input table of a process() run.
MaxProcRows == 6

\* The tag values of the input tables of a process() run.
ProcTags == {StrValue(<<"T", "1">>), StrValue(<<"T", "2">>)}

\* ANALYSIS_TYPE of the three concrete analyzers.
AnalysisTypes == {"radial", "cluster", "orientation"}

NoResult == [of |-> "nothing"]

Event(e, i) == [e |-> e, i |-> i]

\* A failure inside a step: the exception the step's own code raises.
Cause(step, what) == Raised("Exception", <<step>> \o what)

\* str(path)
PathText(path) == path.dir \o path.file

\* except Exception as e: raise AnalysisError(f"Failed to prepare STAR data: ...")
PrepareCatch(e) == Wrap("AnalysisError", "Failed to prepare STAR data: ", e)

\* except Exception as e: raise AnalysisError(f"Failed to process tomogram ...")
TomogramCatch(file, e) ==
    [type |-> "AnalysisError",
     msg |-> <<"Failed to process tomogram ">> \o PathText(file)
                \o <<": ">> \o e.msg]

\* A handler that lets the exception through as it came.
ProcessCatchNone(e) == e

\* except Exception as e: raise AnalysisError(f"Analysis failed: {str(e)}")
ProcessCatch(e) == Wrap("AnalysisError", "Analysis failed: ", e)

\* parallel_process_tomograms has not returned, yet its partial list is used.
ParallelStarted == par_pc \in {"in_pool", "returned"}

\* results = parallel_process_tomograms(...) has returned.
ParallelReturned == par_pc = "returned"

\* _analyze and _combine_results of the concrete analyzer, by what they
\* are given.
AnalyzeValue(file, rows) ==
    [tomogram |-> Stem(file), results |-> [rows |-> rows]]

CombineValue(tomograms) == [of |-> tomograms]

\* The name _save_tomogram_results gives _save_data for its first file:
\* f"{tomogram}_rdf", f"{tomogram}_clusters", tomogram.
DataName(atype, tomogram) ==
    CASE atype = "radial" -> tomogram \o <<"_", "rdf">>
      [] atype = "cluster" -> tomogram \o <<"_", "clusters">>
      [] OTHER -> tomogram

\* _save_data: self.output_dirs['data'] / f"{filename}.txt", for the
\* partition read from star_file (tomogram = star_file.stem).
DataFile(atype, star_file) ==
    [dir |-> <<atype, "data">>,
     file |-> DataName(atype, Stem(star_file)) \o <<".", "txt">>]

\* Two tomogram names that differ after the first dot only.
DottedTags == {StrValue(<<"T", "1">>), StrValue(<<"T", "1", ".", "2">>)}

\* The tables a process() run is given: up to MaxProcRows rows of two
\* tomograms, and the smaller tables of the dotted names.
ProcTables == Tables(ProcTags, MaxProcRows) \cup Tables(DottedTags, MaxRows)

ProcIdle ==
    /\ combined_results = NoResult
    /\ proc_err = None
    /\ trace = <<>>
    /\ faults = {}
    /\ analysis_type = "base"
    /\ proc_pc = "idle"

ProcInit ==
    /\ tag_column \in ProcTables
    /\ partial_match = -1
    /\ star_particles = AllRows(tag_column)
    /\ fs = <<>>
    /\ sub_files = <<>>
    /\ filtered_files = <<>>
    /\ logs = <<>>
    /\ prepare_calls = <<>>
    /\ prep_pc = "start"
    /\ combined_results = NoResult
    /\ proc_err = None
    /\ trace = <<>>
    /\ faults = {}
    /\ analysis_type \in AnalysisTypes
    /\ proc_pc = "prepare"

\* process() calls prepare_star_data, which runs up to classify_star.
ProcPrepareClassify ==
    /\ proc_pc = "prepare"
    /\ PrepareClassify(analysis_type)
    /\ UNCHANGED <<parVars, procVars>>

\* prepare_star_data filters and returns to process().
ProcPrepareFilter ==
    /\ proc_pc = "prepare"
    /\ PrepareFilter
    /\ proc_pc' = "prepared"
    /\ trace' = Append(trace, Event("prepared", 0))
    /\ UNCHANGED <<parVars, combined_results, proc_err, faults, analysis_type>>

\* Something inside prepare_star_data raises (the input cannot be read, a
\* file cannot be written): it is wrapped there and again by process().
ProcPrepareRaise ==
    /\ proc_pc = "prepare"
    /\ prep_pc \in {"start", "classified"}
    /\ LET e == Cause("prepare", <<prep_pc>>)
       IN /\ faults' = faults \cup {e.msg}
          /\ proc_err' = ProcessCatch(PrepareCatch(e))
    /\ prep_pc' = "raised"
    /\ proc_pc' = "raised"
    /\ UNCHANGED <<tag_column, partial_match, star_particles, fs, sub_files,
                   filtered_files, logs, prepare_calls>>
    /\ UNCHANGED <<parVars, combined_results, trace, analysis_type>>

\* process() calls parallel_process_tomograms(sub_star_files,
\* self._process_tomogram).
ProcEnterPool ==
    /\ proc_pc = "prepared"
    /\ \E cpus \in 1 .. MaxCpus : ParEnter(filtered_files, cpus)
    /\ proc_pc' = "parallel"
    /\ UNCHANGED <<prepVars, combined_results, proc_err, trace, faults,
                   analysis_type>>

ProcSubmit ==
    /\ proc_pc = "parallel"
    /\ Submit
    /\ trace' = Append(trace, Event("submit", Len(tasks) + 1))
    /\ UNCHANGED <<prepVars, combined_results, proc_err, faults,
                   analysis_type, proc_pc>>

ProcWorkerStart ==
    /\ proc_pc = "parallel"
    /\ \E i \in 1 .. Len(tasks) : WorkerStart(i)
    /\ UNCHANGED <<prepVars, procVars>>

\* _process_tomogram up to the return of _analyze: the sub-file is read and
\* analysed, or one of the two raises and the task ends with AnalysisError.
ProcWorkerAnalyze ==
    /\ proc_pc = "parallel"
    /\ par_pc = "in_pool"
    /\ \E i \in 1 .. Len(tasks) :
         /\ tasks[i].status = "running"
         /\ \/ /\ tasks[i].file \in DOMAIN fs
               /\ tasks' = [tasks EXCEPT
                              ![i].status = "analyzed",
                              ![i].value = AnalyzeValue(tasks[i].file,
                                                        fs[tasks[i].file])]
               /\ trace' = Append(trace, Event("analyze", i))
               /\ UNCHANGED <<finish_order, faults>>
            \/ LET e == Cause("analyze", Stem(tasks[i].file))
               IN /\ WorkerEnd(i, "err", TomogramCatch(tasks[i].file, e))
                  /\ faults' = faults \cup {e.msg}
                  /\ UNCHANGED trace
    /\ UNCHANGED <<star_files, n_cores, collected, par_ret, par_err, par_pc>>
    /\ UNCHANGED <<prepVars, combined_results, proc_err, analysis_type,
                   proc_pc>>

\* _process_tomogram from _save_tomogram_results to its return.
ProcWorkerSave ==
    /\ proc_pc = "parallel"
    /\ \E i \in 1 .. Len(tasks) :
         /\ tasks[i].status = "analyzed"
         /\ \/ /\ WorkerEnd(i, "ok", tasks[i].value)
               /\ fs' = WriteFile(fs, DataFile(analysis_type, tasks[i].file),
                                  tasks[i].value.results.rows)
               /\ trace' = Append(trace, Event("save", i))
               /\ UNCHANGED faults
            \/ LET e == Cause("save", Stem(tasks[i].file))
               IN /\ WorkerEnd(i, "err", TomogramCatch(tasks[i].file, e))
                  /\ faults' = faults \cup {e.msg}
                  /\ UNCHANGED <<fs, trace>>
    /\ UNCHANGED <<tag_column, partial_match, star_particles, sub_files,
                   filtered_files, logs, prepare_calls, prep_pc>>
    /\ UNCHANGED <<combined_results, proc_err, analysis_type, proc_pc>>

ProcCollect ==
    /\ proc_pc = "parallel"
    /\ Collect1
    /\ trace' = IF Get(tasks[NextGet]).raised THEN trace
                ELSE Append(trace, Event("collect", NextGet))
    /\ UNCHANGED <<prepVars, combined_results, proc_err, faults,
                   analysis_type, proc_pc>>

ProcParReturn ==
    /\ proc_pc = "parallel"
    /\ ParReturn
    /\ UNCHANGED <<prepVars, procVars>>

\* The ProcessingError of parallel_process_tomograms reaches the handler of
\* process().
ProcParallelRaised ==
    /\ proc_pc = "parallel"
    /\ par_pc = "raised"
    /\ proc_err' = ProcessCatch(par_err)
    /\ proc_pc' = "raised"
    /\ UNCHANGED <<prepVars, parVars, combined_results, trace, faults,
                   analysis_type>>

\* A _combine_results that accepts the empty list of every analyzer.
CombineRaisesNever(atype, res) == FALSE

\* _combine_results on an empty list of results: pd.concat([]) of the radial
\* analyzer and the column selection on the empty frame of the orientation
\* analyzer raise; the cluster analyzer builds an empty frame and returns.
CombineRaises(atype, res) ==
    res = <<>> /\ atype \in {"radial", "orientation"}

\* _generate_report on the combination of an empty list: the cluster
\* analyzer's stats['n_clusters'] finds no such column.
ReportRaises(atype, res) ==
    res = <<>> /\ atype = "cluster"

\* The exception each analyzer meets on an empty list of results.
EmptyFailure(atype) ==
    CASE atype = "radial" ->
           Raised("ValueError", <<"No objects to concatenate">>)
      [] atype = "orientation" ->
           Raised("ValueError", <<"Failed to create combined data: ",
                                  "None of [Index] are in the [columns]">>)
      [] OTHER -> Raised("KeyError", <<"'n_clusters'">>)

\* combined_results = self._combine_results(results), or it raises.
ProcCombine ==
    /\ proc_pc = "parallel"
    /\ ParallelReturned
    /\ \/ /\ ~CombineRaises(analysis_type, par_ret)
          /\ combined_results' = CombineValue(par_ret)
          /\ proc_pc' = "combined"
          /\ trace' = Append(trace, Event("combine", 0))
          /\ UNCHANGED <<proc_err, faults>>
       \/ LET e == IF CombineRaises(analysis_type, par_ret)
                   THEN EmptyFailure(analysis_type)
                   ELSE Cause("combine", <<"results">>)
          IN /\ faults' = faults \cup {e.msg}
             /\ proc_err' = ProcessCatch(e)
             /\ proc_pc' = "raised"
             /\ UNCHANGED <<combined_results, trace>>
    /\ UNCHANGED <<prepVars, parVars, analysis_type>>

\* self._generate_report(combined_results), or it raises.
ProcReport ==
    /\ proc_pc = "combined"
    /\ \/ /\ ~ReportRaises(analysis_type, combined_results.of)
          /\ proc_pc' = "reported"
          /\ trace' = Append(trace, Event("report", 0))
          /\ UNCHANGED <<combined_results, proc_err, faults>>
       \/ LET e == IF ReportRaises(analysis_type, combined_results.of)
                   THEN EmptyFailure(analysis_type)
                   ELSE Cause("report", <<"results">>)
          IN /\ faults' = faults \cup {e.msg}
             /\ proc_err' = ProcessCatch(e)
             /\ proc_pc' = "raised"
             /\ UNCHANGED <<combined_results, trace>>
    /\ UNCHANGED <<prepVars, parVars, analysis_type>>

\* return combined_results
ProcReturn ==
    /\ proc_pc = "reported"
    /\ proc_pc' = "returned"
    /\ trace' = Append(trace, Event("return", 0))
    /\ UNCHANGED <<prepVars, parVars, combined_results, proc_err, faults,
                   analysis_type>>

ProcNext ==
    \/ ProcPrepareClassify /\ UNCHANGED outsideProcess
    \/ ProcPrepareFilter /\ UNCHANGED outsideProcess
    \/ ProcPrepareRaise /\ UNCHANGED outsideProcess
    \/ ProcEnterPool /\ UNCHANGED outsideProcess
    \/ ProcSubmit /\ UNCHANGED outsideProcess
    \/ ProcWorkerStart /\ UNCHANGED outsideProcess
    \/ ProcWorkerAnalyze /\ UNCHANGED outsideProcess
    \/ ProcWorkerSave /\ UNCHANGED outsideProcess
    \/ ProcCollect /\ UNCHANGED outsideProcess
    \/ ProcParReturn /\ UNCHANGED outsideProcess
    \/ ProcParallelRaised /\ UNCHANGED outsideProcess
    \/ ProcCombine /\ UNCHANGED outsideProcess
    \/ ProcReport /\ UNCHANGED outsideProcess
    \/ ProcReturn /\ UNCHANGED outsideProcess

----------------------------------------------------------------------------
(* RibosomeSpatialAnalyzer, analyzers/ribosome_spatial.py                  *)

\* The sub-analyzers in the order run_analysis calls them.
Analyzers == <<"radial", "cluster", "orientation">>

\* The title of the report section of each entry of results.
SectionTitle ==
    [radial |-> "Radial Distribution Summary",
     cluster |-> "Cluster Analysis Summary",
     orientation |-> "Orientation Analysis Summary"]

NoReport == <<"no report">>

\* results[name] = value
SetItem(dict, name, value) ==
    [k \in DOMAIN dict \cup {name} |-> IF k = name THEN value ELSE dict[k]]

\* The analyzer whose process() is running, and the one called next.
Current == Analyzers[Len(started)]

Upcoming == Analyzers[Len(started) + 1]

\* The sections _generate_report writes after the dataset summary: one for
\* each key of results, in the fixed order, unless formatting it failed.
RECURSIVE Sections(_, _, _)
Sections(dict, unformatted, i) ==
    IF i > Len(Analyzers) THEN <<>>
    ELSE (IF Analyzers[i] \in DOMAIN dict /\ Analyzers[i] \notin unformatted
          THEN <<[title |-> SectionTitle[Analyzers[i]]]>>
          ELSE <<>>)
         \o Sections(dict, unformatted, i + 1)

DatasetSummary(particles) ==
    [title |-> "Dataset Summary",
     total |-> Len(particles),
     tomograms |-> Len(Unique([i \in 1 .. Len(particles) |->
                                  tag_column[particles[i]]]))]

SpatialIdle ==
    /\ processed_star = <<>>
    /\ self_sub_files = <<>>
    /\ results = <<>>
    /\ report = NoReport
    /\ run_logs = <<>>
    /\ run_err = None
    /\ started = <<>>
    /\ sub_failed = {}
    /\ pool_input = <<>>
    /\ run_pc = "idle"

\* After __init__: the input exists, self.processor is a RadialAnalyzer and
\* run_analysis is entered.
SpatialInit ==
    /\ tag_column \in Tables(ProcTags, MaxProcRows)
    /\ partial_match = -1
    /\ star_particles = AllRows(tag_column)
    /\ fs = <<>>
    /\ sub_files = <<>>
    /\ filtered_files = <<>>
    /\ logs = <<>>
    /\ prepare_calls = <<>>
    /\ prep_pc = "start"
    /\ processed_star = <<>>
    /\ self_sub_files = <<>>
    /\ results = <<>>
    /\ report = NoReport
    /\ run_logs = <<>>
    /\ run_err = None
    /\ started = <<>>
    /\ sub_failed = {}
    /\ pool_input = <<>>
    /\ run_pc = "prepare"

\* self.processor.prepare_star_data(), up to the return of classify_star.
RunPrepareClassify ==
    /\ run_pc = "prepare"
    /\ PrepareClassify("radial")
    /\ UNCHANGED <<parVars, procVars, spatialVars>>

\* self.processed_star, self.sub_files = self.processor.prepare_star_data()
RunPrepareFilter ==
    /\ run_pc = "prepare"
    /\ PrepareFilter
    /\ processed_star' = star_particles
    /\ self_sub_files' = filtered_files'
    /\ run_pc' = "call"
    /\ UNCHANGED <<parVars, procVars>>
    /\ UNCHANGED <<results, report, run_logs, run_err, started, sub_failed,
                   pool_input>>

\* The processor's prepare_star_data raises: the call is outside the try of
\* run_analysis, the AnalysisError leaves it as it is.
RunPrepareRaise ==
    /\ run_pc = "prepare"
    /\ prep_pc \in {"start", "classified"}
    /\ run_err' = PrepareCatch(Cause("prepare", <<prep_pc>>))
    /\ prep_pc' = "raised"
    /\ run_pc' = "raised"
    /\ UNCHANGED <<tag_column, partial_match, star_particles, fs, sub_files,
                   filtered_files, logs, prepare_calls>>
    /\ UNCHANGED <<parVars, procVars>>
    /\ UNCHANGED <<processed_star, self_sub_files, results, report, run_logs,
                   started, sub_failed, pool_input>>

\* The next analyzer is constructed, handed self.processed_star and
\* self.sub_files as attributes, and its process() is entered: a new object
\* with its own output directory, whose prepare_star_data has its own locals
\* and reads the input file.
SubProcessCall ==
    /\ run_pc = "call"
    /\ Len(started) < Len(Analyzers)
    /\ started' = Append(started, Upcoming)
    /\ run_logs' = Append(run_logs, [level |-> "info", what |-> "Running",
                                     name |-> Upcoming])
    /\ run_pc' = "process"
    /\ analysis_type' = Upcoming
    /\ combined_results' = NoResult
    /\ proc_err' = None
    /\ trace' = <<>>
    /\ faults' = {}
    /\ proc_pc' = "prepare"
    /\ star_particles' = AllRows(tag_column)
    /\ sub_files' = <<>>
    /\ filtered_files' = <<>>
    /\ prep_pc' = "start"
    /\ star_files' = <<>>
    /\ n_cores' = 1
    /\ tasks' = <<>>
    /\ finish_order' = <<>>
    /\ collected' = <<>>
    /\ par_ret' = <<>>
    /\ par_err' = None
    /\ par_pc' = "idle"
    /\ UNCHANGED <<tag_column, partial_match, fs, logs, prepare_calls>>
    /\ UNCHANGED <<processed_star, self_sub_files, results, report, run_err,
                   sub_failed, pool_input>>

\* results[name] = analyzer.process()
SubProcessReturn ==
    /\ run_pc = "process"
    /\ proc_pc = "returned"
    /\ results' = SetItem(results, Current, combined_results)
    /\ pool_input' = SetItem(pool_input, Current, star_files)
    /\ run_pc' = IF Len(started) < Len(Analyzers) THEN "call" ELSE "report"
    /\ UNCHANGED <<prepVars, parVars, procVars>>
    /\ UNCHANGED <<processed_star, self_sub_files, report, run_logs, run_err,
                   started, sub_failed>>

\* except Exception as e: logger.error(f"Analysis failed: {str(e)}"); raise
RunCatch(e) ==
    /\ run_logs' = Append(run_logs, [level |-> "error",
                                     what |-> "Analysis failed",
                                     text |-> e.msg])
    /\ run_err' = e
    /\ run_pc' = "raised"

\* An analyzer's process() raises: the handler of run_analysis logs the
\* error and raises it again.
SubProcessRaised ==
    /\ run_pc = "process"
    /\ proc_pc = "raised"
    /\ RunCatch(proc_err)
    /\ sub_failed' = sub_failed \cup {Current}
    /\ UNCHANGED <<prepVars, parVars, procVars>>
    /\ UNCHANGED <<processed_star, self_sub_files, results, report, started,
                   pool_input>>

\* self._generate_report(results): the dataset summary, then the sections;
\* a section whose statistics cannot be formatted is logged and left out.
\* Opening report.txt may fail, which reaches the handler of run_analysis.
GenerateReport ==
    /\ run_pc = "report"
    /\ \/ \E unformatted \in SUBSET DOMAIN results :
            /\ report' = <<DatasetSummary(processed_star)>>
                            \o Sections(results, unformatted, 1)
            /\ run_logs' = Append(run_logs,
                                  [level |-> "info", what |-> "Combined report",
                                   unformatted |-> unformatted])
            /\ run_pc' = "reported"
            /\ UNCHANGED run_err
       \/ /\ RunCatch(Cause("report", <<"report.txt">>))
          /\ UNCHANGED report
    /\ UNCHANGED <<prepVars, parVars, procVars>>
    /\ UNCHANGED <<processed_star, self_sub_files, results, started,
                   sub_failed, pool_input>>

\* return results
RunReturn ==
    /\ run_pc = "reported"
    /\ run_pc' = "returned"
    /\ UNCHANGED <<prepVars, parVars, procVars>>
    /\ UNCHANGED <<processed_star, self_sub_files, results, report, run_logs,
                   run_err, started, sub_failed, pool_input>>

SpatialNext ==
    \/ RunPrepareClassify /\ UNCHANGED outsideSpatial
    \/ RunPrepareFilter /\ UNCHANGED outsideSpatial
    \/ RunPrepareRaise /\ UNCHANGED outsideSpatial
    \/ SubProcessCall /\ UNCHANGED outsideSpatial
    \/ ProcPrepareClassify /\ UNCHANGED <<outsideSpatial, spatialVars>>
    \/ ProcPrepareFilter /\ UNCHANGED <<outsideSpatial, spatialVars>>
    \/ ProcPrepareRaise /\ UNCHANGED <<outsideSpatial, spatialVars>>
    \/ ProcEnterPool /\ UNCHANGED <<outsideSpatial, spatialVars>>
    \/ ProcSubmit /\ UNCHANGED <<outsideSpatial, spatialVars>>
    \/ ProcWorkerStart /\ UNCHANGED <<outsideSpatial, spatialVars>>
    \/ ProcWorkerAnalyze /\ UNCHANGED <<outsideSpatial, spatialVars>>
    \/ ProcWorkerSave /\ UNCHANGED <<outsideSpatial, spatialVars>>
    \/ ProcCollect /\ UNCHANGED <<outsideSpatial, spatialVars>>
    \/ ProcParReturn /\ UNCHANGED <<outsideSpatial, spatialVars>>
    \/ ProcParallelRaised /\ UNCHANGED <<outsideSpatial, spatialVars>>
    \/ ProcCombine /\ UNCHANGED <<outsideSpatial, spatialVars>>
    \/ ProcReport /\ UNCHANGED <<outsideSpatial, spatialVars>>
    \/ ProcReturn /\ UNCHANGED <<outsideSpatial, spatialVars>>
    \/ SubProcessReturn /\ UNCHANGED outsideSpatial
    \/ SubProcessRaised /\ UNCHANGED outsideSpatial
    \/ GenerateReport /\ UNCHANGED outsideSpatial
    \/ RunReturn /\ UNCHANGED outsideSpatial

----------------------------------------------------------------------------
(* ClusterAnalyzer, analyzers/cluster.py, and build_adjacency_matrix,      *)
(* core/matrix_math.py. Coordinates are integer points; a distance is      *)
(* compared with the threshold by its square.                              *)

\* The points a partition's particles lie on: the second is 10 from the
\* first, the third far from all, the fourth exactly 50 from the first.
CoordValues ==
    {<<0, 0, 0>>, <<10, 0, 0>>, <<1000, 0, 0>>, <<0, 30, 40>>}

\* The values of --threshold and --min-cluster-size of a run.
Thresholds == {0, 50}

MinClusterSizes == {1, 2}

\* The partitions of a run, by tomogram name.
ClusterTomograms == <<"T1", "T2">>

\* pdist: the squared Euclidean distance of two points
Dist2(a, b) ==
    (a[1] - b[1]) * (a[1] - b[1]) + (a[2] - b[2]) * (a[2] - b[2])
        + (a[3] - b[3]) * (a[3] - b[3])

\* dist <= threshold, for a distance that is the root of d2
WithinThreshold(d2, threshold) == threshold >= 0 /\ d2 <= threshold * threshold

\* squareform(pdist(coords)), squared
DistMatrix(xyz, n) ==
    [ij \in Idx(n) \X Idx(n) |-> Dist2(xyz[ij[1]], xyz[ij[2]])]

\* adjacency = dist_matrix <= threshold; np.fill_diagonal(adjacency, False)
ThresholdAdjacency(dist, n, threshold) ==
    [ij \in Idx(n) \X Idx(n) |->
        IF ij[1] = ij[2] THEN FALSE ELSE WithinThreshold(dist[ij], threshold)]

\* KDTree.query_pairs(threshold): the pairs (i, j), i < j, at most
\* threshold apart.
QueryPairs(xyz, n, threshold) ==
    {ij \in Idx(n) \X Idx(n) :
        ij[1] < ij[2] /\ WithinThreshold(Dist2(xyz[ij[1]], xyz[ij[2]]),
                                         threshold)}

\* An adjacency matrix that is set for (i, j) of the pairs only.
build_adjacency_one_way(xyz, n, threshold) ==
    [ij \in Idx(n) \X Idx(n) |-> ij \in QueryPairs(xyz, n, threshold)]

\* build_adjacency_matrix: zeros, then True at (i, j) and (j, i) of each pair
build_adjacency_matrix(xyz, n, threshold) ==
    [ij \in Idx(n) \X Idx(n) |->
        \/ ij \in QueryPairs(xyz, n, threshold)
        \/ <<ij[2], ij[1]>> \in QueryPairs(xyz, n, threshold)]

RECURSIVE SumSeq(_)
SumSeq(q) == IF q = <<>> THEN 0 ELSE q[1] + SumSeq(Tail(q))

MaxSeq(q) == CHOOSE m \in {q[k] : k \in 1 .. Len(q)} :
                 \A k \in 1 .. Len(q) : q[k] <= m

\* np.mean(q) as the fraction sum / length; the literal 0 as 0 / 1
Mean(q) == [num |-> SumSeq(q), den |-> Len(q)]

ZeroMean == [num |-> 0, den |-> 1]

\* The size_distribution dict as its (size, count) items in insertion order.
SizeItems(cl) ==
    LET sizes == Unique([k \in 1 .. Len(cl) |-> Len(cl[k])])
    IN [m \in 1 .. Len(sizes) |->
          [size |-> sizes[m],
           count |-> Cardinality({k \in 1 .. Len(cl) :
                                    Len(cl[k]) = sizes[m]})]]

\* [size] * count
Repeat(size, count) == [k \in 1 .. count |-> size]

\* A loop that extends by every item, whatever its size.
RECURSIVE ExtendSizesAll(_, _, _)
ExtendSizesAll(sizes, items, min_size) ==
    IF items = <<>> THEN sizes
    ELSE ExtendSizesAll(sizes \o Repeat(items[1].size, items[1].count),
                        Tail(items), min_size)

\* The loop "for size, count in size_dist.items(): if size >=
\* min_cluster_size: sizes.extend([size] * count)".
RECURSIVE ExtendSizes(_, _, _)
ExtendSizes(sizes, items, min_size) ==
    IF items = <<>> THEN sizes
    ELSE ExtendSizes(IF items[1].size >= min_size
                     THEN sizes \o Repeat(items[1].size, items[1].count)
                     ELSE sizes,
                     Tail(items), min_size)

\* A filter that keeps every cluster.
FilterClustersAll(cl, min_size) == cl

\* [cluster for cluster in clusters if len(cluster) >= min_cluster_size]
FilterClusters(cl, min_size) ==
    SelectSeq(cl, LAMBDA c : Len(c) >= min_size)

\* Statistics taken over an empty list: the mean of nothing.
MeanOfNothing ==
    [n_clusters |-> 0, total_particles |-> 0, largest_size |-> 0,
     avg_size |-> Mean(<<>>)]

\* The statistics returned when no cluster is left.
NoSurvivorStatistics ==
    [n_clusters |-> 0, total_particles |-> 0, largest_size |-> 0,
     avg_size |-> ZeroMean]

\* _analyze after find_particle_clusters has returned (clusters, size_dist).
cluster_analyze(cl, size_dist, min_size) ==
    LET filtered_clusters == FilterClusters(cl, min_size)
        cluster_sizes == [k \in 1 .. Len(filtered_clusters) |->
                            Len(filtered_clusters[k])]
    IN IF filtered_clusters = <<>>
       THEN [clusters |-> <<>>, size_dist |-> <<>>,
             statistics |-> NoSurvivorStatistics]
       ELSE [clusters |-> filtered_clusters, size_dist |-> size_dist,
             statistics |->
                [n_clusters |-> Len(filtered_clusters),
                 total_particles |-> SumSeq(cluster_sizes),
                 largest_size |-> MaxSeq(cluster_sizes),
                 avg_size |-> Mean(cluster_sizes)]]

NoAnalysis == [clusters |-> <<>>, size_dist |-> <<>>,
               statistics |-> [none |-> TRUE]]

NotBuilt == [built |-> FALSE, matrix |-> <<>>]

NotCombined == [combined_stats |-> <<>>, size_distribution |-> <<"none">>]

\* cluster_data of _save_tomogram_results
ClusterData(cl) ==
    [k \in 1 .. Len(cl) |->
        [Cluster |-> k, Size |-> Len(cl[k]), Members |-> cl[k]]]

\* all_sizes of _combine_results: the loop over (tomogram, result)
RECURSIVE AllSizes(_, _, _)
AllSizes(sizes, pairs_in, min_size) ==
    IF pairs_in = <<>> THEN sizes
    ELSE AllSizes(ExtendSizes(sizes, pairs_in[1].results.size_dist, min_size),
                  Tail(pairs_in), min_size)

\* all_stats of _combine_results: stats['tomogram'] = tomogram
AllStats(pairs_in) ==
    [k \in 1 .. Len(pairs_in) |->
        [tomogram |-> pairs_in[k].tomogram,
         statistics |-> pairs_in[k].results.statistics]]

Column(stats, key) == [k \in 1 .. Len(stats) |-> stats[k].statistics[key]]

PartIdle == coords = <<>>

CaIdle ==
    /\ config = [threshold |-> 380, min_cluster_size |-> 1]
    /\ todo = <<>>
    /\ kd_adjacency = NotBuilt
    /\ analysis = NoAnalysis
    /\ tomo_results = <<>>
    /\ ca_combined = NotCombined
    /\ data_files = <<>>
    /\ cluster_report = <<>>
    /\ ca_logs = <<>>
    /\ ca_pc = "idle"

\* A ClusterAnalyzer with its configuration, about to process one or two
\* partitions.
CaInit ==
    /\ config \in [threshold : Thresholds, min_cluster_size : MinClusterSizes]
    /\ todo \in {SubSeq(ClusterTomograms, 1, k) :
                    k \in 1 .. Len(ClusterTomograms)}
    /\ coords = <<>>
    /\ kd_adjacency = NotBuilt
    /\ analysis = NoAnalysis
    /\ tomo_results = <<>>
    /\ ca_combined = NotCombined
    /\ data_files = <<>>
    /\ cluster_report = <<>>
    /\ ca_logs = <<>>
    /\ ca_pc = "next"

\* _process_tomogram reads the next partition; _analyze thresholds its
\* distance matrix and enters find_particle_clusters.
CaReadTomogram ==
    /\ ca_pc = "next"
    /\ todo # <<>>
    /\ \E n \in 1 .. MaxParticles : \E xyz \in [Idx(n) -> CoordValues] :
         LET adjacency == ThresholdAdjacency(DistMatrix(xyz, n), n,
                                             config.threshold)
         IN /\ coords' = xyz
            /\ n_particles' = n
            /\ adjacency_matrix' = adjacency
            /\ uf' = UnionFindInit(n)
            /\ pairs' = TriuPairs(adjacency, n)
    /\ pair_pos' = 0
    /\ clusters' = <<>>
    /\ size_distribution' = <<>>
    /\ cpc' = "merge"
    /\ kd_adjacency' = NotBuilt
    /\ analysis' = NoAnalysis
    /\ ca_pc' = "clustering"
    /\ UNCHANGED <<config, todo, tomo_results, ca_combined, data_files,
                   cluster_report, ca_logs>>

\* A direct call build_adjacency_matrix(coords, threshold) on the
\* coordinates of the partition.
BuildAdjacencyCall ==
    /\ ca_pc = "clustering"
    /\ cpc = "done"
    /\ ~kd_adjacency.built
    /\ kd_adjacency' = [built |-> TRUE,
                        matrix |-> build_adjacency_matrix(
                                       coords, n_particles, config.threshold)]
    /\ UNCHANGED <<config, todo, coords, analysis, tomo_results, ca_combined,
                   data_files, cluster_report, ca_logs, ca_pc>>
    /\ UNCHANGED clusterVars

\* _analyze from the return of find_particle_clusters to its own return.
CaAnalyzeReturn ==
    /\ ca_pc = "clustering"
    /\ cpc = "done"
    /\ kd_adjacency.built
    /\ analysis' = cluster_analyze(clusters, SizeItems(clusters),
                                   config.min_cluster_size)
    /\ ca_logs' = IF analysis'.clusters = <<>>
                  THEN Append(ca_logs, [level |-> "warning",
                                        what |-> "No clusters found"])
                  ELSE ca_logs
    /\ ca_pc' = "analyzed"
    /\ UNCHANGED <<config, todo, coords, kd_adjacency, tomo_results,
                   ca_combined, data_files, cluster_report>>
    /\ UNCHANGED clusterVars

\* _save_tomogram_results, and the (tomogram, results) pair returned by
\* _process_tomogram joins the list of results.
CaSave ==
    /\ ca_pc = "analyzed"
    /\ LET tomogram == Head(todo)
           size_data == ExtendSizes(<<>>, analysis.size_dist,
                                    config.min_cluster_size)
           saved == SetItem(data_files, <<tomogram, "_clusters">>,
                            ClusterData(analysis.clusters))
       IN /\ data_files' = IF analysis.size_dist # <<>> /\ size_data # <<>>
                           THEN SetItem(saved, <<tomogram, "_sizes">>,
                                        size_data)
                           ELSE saved
          /\ tomo_results' = Append(tomo_results,
                                    [tomogram |-> tomogram,
                                     results |-> analysis])
    /\ todo' = Tail(todo)
    /\ ca_pc' = "next"
    /\ UNCHANGED <<config, coords, kd_adjacency, analysis, ca_combined,
                   cluster_report, ca_logs>>
    /\ UNCHANGED clusterVars

\* _combine_results(results)
CaCombine ==
    /\ ca_pc = "next"
    /\ todo = <<>>
    /\ LET all_stats == AllStats(tomo_results)
           all_sizes == AllSizes(<<>>, tomo_results, config.min_cluster_size)
           saved == SetItem(data_files, <<"cluster_statistics">>, all_stats)
       IN /\ data_files' = IF all_sizes # <<>>
                           THEN SetItem(saved, <<"all_sizes">>, all_sizes)
                           ELSE saved
          /\ ca_combined' = [combined_stats |-> all_stats,
                             size_distribution |-> all_sizes]
    /\ ca_pc' = "combined"
    /\ UNCHANGED <<config, todo, coords, kd_adjacency, analysis, tomo_results,
                   cluster_report, ca_logs>>
    /\ UNCHANGED clusterVars

\* _generate_report(combined_results)
CaReport ==
    /\ ca_pc = "combined"
    /\ LET stats == ca_combined.combined_stats
           sizes == ca_combined.size_distribution
       IN cluster_report' =
            <<[title |-> "Dataset Statistics",
               tomograms |-> Len(stats),
               total_clusters |-> SumSeq(Column(stats, "n_clusters")),
               total_particles |-> SumSeq(Column(stats, "total_particles"))]>>
            \o (IF sizes # <<>>
                THEN <<[title |-> "Cluster Statistics",
                        average |-> Mean(sizes),
                        largest |-> MaxSeq(sizes)]>>
                ELSE <<>>)
    /\ ca_logs' = Append(ca_logs, [level |-> "info",
                                   what |-> "Analysis report saved"])
    /\ ca_pc' = "done"
    /\ UNCHANGED <<config, todo, coords, kd_adjacency, analysis, tomo_results,
                   ca_combined, data_files>>
    /\ UNCHANGED clusterVars

ClusterRunNext ==
    \/ CaReadTomogram /\ UNCHANGED outsideClusterRun
    \/ (ca_pc = "clustering" /\ MergePair /\ UNCHANGED <<partVars, caVars>>)
          /\ UNCHANGED outsideClusterRun
    \/ (ca_pc = "clustering" /\ Collect /\ UNCHANGED <<partVars, caVars>>)
          /\ UNCHANGED outsideClusterRun
    \/ BuildAdjacencyCall /\ UNCHANGED outsideClusterRun
    \/ CaAnalyzeReturn /\ UNCHANGED outsideClusterRun
    \/ CaSave /\ UNCHANGED outsideClusterRun
    \/ CaCombine /\ UNCHANGED outsideClusterRun
    \/ CaReport /\ UNCHANGED outsideClusterRun

----------------------------------------------------------------------------
(* OrientationAnalyzer._analyze, analyzers/orientation.py, with             *)
(* euler_to_vector and calculate_orientation_angle, core/matrix_math.py.   *)
(* Euler angles are multiples of 90 degrees, so that every direction       *)
(* vector is a unit vector along an axis.                                  *)

\* np.inf, as an entry of the squared distance matrix
Inf == -1

\* a < b for entries of the distance matrix
LessThan(a, b) == a # Inf /\ (b = Inf \/ a < b)

\* The (rot, tilt, psi) triples of the particles, in degrees.
EulerValues == {<<0, 0, 0>>, <<90, 0, 0>>, <<0, 90, 0>>, <<0, 90, 90>>,
                <<0, 180, 0>>}

\* The points of the particles of an orientation analysis.
OrientCoords == {<<0, 0, 0>>, <<10, 0, 0>>, <<1000, 0, 0>>}

Cos90(a) == CASE a % 360 = 0 -> 1 [] a % 360 = 180 -> -1 [] OTHER -> 0

Sin90(a) == CASE a % 360 = 90 -> 1 [] a % 360 = 270 -> -1 [] OTHER -> 0

\* R.from_euler('zyz', [rot, tilt, psi]).apply([0, 0, 1]) with the x
\* component negated: the z axis turned about z by rot, about y by tilt,
\* about z by psi.
euler_to_vector(rot, tilt, psi) ==
    LET x == Sin90(tilt) * Cos90(psi)
        y == Sin90(tilt) * Sin90(psi)
        z == Cos90(tilt)
    IN <<0 - x, y, z>>

\* np.degrees(np.arccos(d)) for d in {-1, 0, 1}
ArcCosDegrees(d) == CASE d = 1 -> 0 [] d = 0 -> 90 [] d = -1 -> 180

\* calculate_orientation_angle for unit vectors along the axes
calculate_orientation_angle(vec1, vec2) ==
    LET dot_product == vec1[1] * vec2[1] + vec1[2] * vec2[2]
                          + vec1[3] * vec2[3]
    IN ArcCosDegrees(dot_product)

\* The number of particles of a coordinate array.
NumParticles(xyz) == Cardinality(DOMAIN xyz)

\* A fill that leaves the diagonal as it is.
KeepDiagonal(dist, n, value) == dist

\* dist = dist_matrix.copy(); np.fill_diagonal(dist, value)
FillDiagonal(dist, n, value) ==
    [ij \in Idx(n) \X Idx(n) |-> IF ij[1] = ij[2] THEN value ELSE dist[ij]]

\* np.argmin over row i: the first index that holds the row's minimum
ArgMinRow(dist, i, n) ==
    CHOOSE k \in Idx(n) :
        /\ \A m \in Idx(n) : ~LessThan(dist[<<i, m>>], dist[<<i, k>>])
        /\ \A m \in Idx(n) : m < k => LessThan(dist[<<i, k>>], dist[<<i, m>>])

\* np.min over row i
MinRow(dist, i, n) == dist[<<i, ArgMinRow(dist, i, n)>>]

OaIdle ==
    /\ eulers = <<>>
    /\ vectors = <<>>
    /\ nearest_neighbors = <<>>
    /\ nearest_distances = <<>>
    /\ angles = <<>>
    /\ oa_pc = "idle"

\* _analyze is entered with the rows of one partition.
OaInit ==
    /\ \E n \in 1 .. MaxParticles :
          /\ coords \in [Idx(n) -> OrientCoords]
          /\ eulers \in [Idx(n) -> EulerValues]
    /\ vectors = <<>>
    /\ nearest_neighbors = <<>>
    /\ nearest_distances = <<>>
    /\ angles = <<>>
    /\ oa_pc = "start"

\* vectors = np.array([euler_to_vector(...) for _, row in data.iterrows()])
OaVectors ==
    /\ oa_pc = "start"
    /\ vectors' = [i \in DOMAIN eulers |->
                      euler_to_vector(eulers[i][1], eulers[i][2],
                                      eulers[i][3])]
    /\ oa_pc' = "vectors"
    /\ UNCHANGED <<coords, eulers, nearest_neighbors, nearest_distances,
                   angles>>

\* The diagonal is set to infinity, then the arg-min and the minimum of
\* every row are taken.
OaNearest ==
    /\ oa_pc = "vectors"
    /\ LET n == NumParticles(coords)
           dist == FillDiagonal(DistMatrix(coords, n), n, Inf)
       IN /\ nearest_neighbors' = [i \in Idx(n) |-> ArgMinRow(dist, i, n)]
          /\ nearest_distances' = [i \in Idx(n) |-> MinRow(dist, i, n)]
    /\ oa_pc' = "nearest"
    /\ UNCHANGED <<coords, eulers, vectors, angles>>

\* The angle of every particle with its nearest neighbour; the results are
\* non-empty arrays and are returned.
OaAngles ==
    /\ oa_pc = "nearest"
    /\ angles' = [i \in DOMAIN nearest_neighbors |->
                     calculate_orientation_angle(
                         vectors[i], vectors[nearest_neighbors[i]])]
    /\ oa_pc' = "returned"
    /\ UNCHANGED <<coords, eulers, vectors, nearest_neighbors,
                   nearest_distances>>

OrientationNext ==
    \/ OaVectors /\ UNCHANGED outsideOrientation
    \/ OaNearest /\ UNCHANGED outsideOrientation
    \/ OaAngles /\ UNCHANGED outsideOrientation

\* np.arange(0, 181, 10)
AngleBinEdges == [k \in 1 .. 19 |-> 10 * (k - 1)]

\* pd.cut(pd.Series(values), bins=bins, right=False).value_counts()
\* .sort_index(): per interval [bins[k], bins[k+1]) the number of values in
\* it; a value in no interval is NaN to value_counts and is not counted.
cut_value_counts(values, bins) ==
    [k \in 1 .. (Len(bins) - 1) |->
        Cardinality({i \in DOMAIN values :
                        bins[k] <= values[i] /\ values[i] < bins[k + 1]})]

NoOrientationReport == [written |-> FALSE]

ReportIdle == oa_report = NoOrientationReport

\* _generate_report for the results of the partition analysed: the dataset
\* statistics and the angular distribution of orientation_report.txt.
OaReport ==
    /\ oa_pc = "returned"
    /\ oa_report' =
          [written |-> TRUE,
           total_measurements |-> NumParticles(angles),
           angular_distribution |-> cut_value_counts(angles, AngleBinEdges)]
    /\ oa_pc' = "reported"
    /\ UNCHANGED <<coords, eulers, vectors, nearest_neighbors,
                   nearest_distances, angles>>

OrientationReportNext ==
    \/ OaVectors /\ UNCHANGED outsideOrientation
    \/ OaNearest /\ UNCHANGED outsideOrientation
    \/ OaAngles /\ UNCHANGED outsideOrientation
    \/ OaReport /\ UNCHANGED outsideReport

----------------------------------------------------------------------------
(* Floating-point numbers, as numpy computes with them: a fraction, an     *)
(* infinity or a NaN. Zero is not signed.                                  *)

Abs(x) == IF x < 0 THEN -x ELSE x

RECURSIVE GCD(_, _)
GCD(a, b) == IF b = 0 THEN a ELSE GCD(b, a % b)

\* The fraction n / d in lowest terms, d # 0.
Frac(n, d) ==
    LET g == GCD(Abs(n), Abs(d))
        s == IF d < 0 THEN -1 ELSE 1
    IN [k |-> "fin", num |-> s * (n \div g), den |-> s * (d \div g)]

Num(i) == Frac(i, 1)

Zero == Num(0)

Infinity(sign) == [k |-> "inf", sign |-> sign]

NaN == [k |-> "nan"]

Sign(x) ==
    IF x.k = "inf" THEN x.sign
    ELSE IF x.num > 0 THEN 1 ELSE IF x.num < 0 THEN -1 ELSE 0

IsFinite(x) == x.k = "fin"

\* a / b of numpy: a division by zero gives an infinity or a NaN, with a
\* warning.
FloatDiv(a, b) ==
    IF a.k = "nan" \/ b.k = "nan" THEN NaN
    ELSE IF a.k = "inf"
    THEN IF b.k = "inf" THEN NaN
         ELSE Infinity(IF Sign(b) < 0 THEN -a.sign ELSE a.sign)
    ELSE IF b.k = "inf" THEN Zero
    ELSE IF b.num = 0
    THEN IF a.num = 0 THEN NaN ELSE Infinity(Sign(a))
    ELSE Frac(a.num * b.den, a.den * b.num)

\* a * b
FloatMul(a, b) ==
    IF a.k = "nan" \/ b.k = "nan" THEN NaN
    ELSE IF a.k = "inf" \/ b.k = "inf"
    THEN IF Sign(a) = 0 \/ Sign(b) = 0 THEN NaN
         ELSE Infinity(Sign(a) * Sign(b))
    ELSE Frac(a.num * b.num, a.den * b.den)

\* a + b of finite numbers
FloatAdd(a, b) == Frac(a.num * b.den + b.num * a.den, a.den * b.den)

\* a > 0, a != 0: a comparison with a NaN is False
GreaterZero(a) == a.k # "nan" /\ Sign(a) > 0

NotZero(a) == a.k = "nan" \/ Sign(a) # 0

----------------------------------------------------------------------------
(* shell_normalize, core/matrix_math.py. A volume is counted in units of   *)
(* 4/3 * pi, so that a shell volume is the integer bins[k+1]^3 - bins[k]^3  *)
(* and a normalized value is a fraction of that unit.                      *)

\* Largest count of a histogram bin.
MaxCount == 2

\* The bin-edge lists a call is given.
BinEdgeLists == {<<0, 1, 2>>, <<0, 1, 1>>, <<0, 2>>}

\* The box volumes a call is given: a Python float or a numpy float64.
BoxVolumes == [value : {0, 1, 8}, numpy : BOOLEAN]

NumpyFloat(v) == [value |-> v, numpy |-> TRUE]

PythonFloat(v) == [value |-> v, numpy |-> FALSE]

\* bins[1:]**3 - bins[:-1]**3
ShellVolumes(bins) ==
    [k \in 1 .. Len(bins) - 1 |->
        Num(bins[k + 1] * bins[k + 1] * bins[k + 1]
            - bins[k] * bins[k] * bins[k])]

\* n_particles / box_volume with n_particles a Python int: Python's own
\* division raises ZeroDivisionError on a Python float 0.0, numpy's gives
\* inf or nan.
DivisionRaises(box_volume) == ~box_volume.numpy /\ box_volume.value = 0

NumberDensity(n, box_volume) == FloatDiv(Num(n), Num(box_volume.value))

\* np.divide(hist / n_particles, norm, out=zeros, where=norm > 0), bin k
NormalizedBin(count, n, norm) ==
    IF GreaterZero(norm) THEN FloatDiv(FloatDiv(Num(count), Num(n)), norm)
    ELSE Zero

\* shell_normalize(hist, bins, box_volume, n_particles): the array returned,
\* or the RadialAnalysisError its except clause raises.
shell_normalize(hist, bins, box_volume, n) ==
    IF DivisionRaises(box_volume)
    THEN [raised |-> TRUE, value |-> <<>>,
          error |-> Wrap("RadialAnalysisError",
                         "Shell normalization failed: ",
                         Raised("ZeroDivisionError",
                                <<"float division by zero">>))]
    ELSE LET shell_volumes == ShellVolumes(bins)
             number_density == NumberDensity(n, box_volume)
             norm == [k \in 1 .. Len(hist) |->
                         FloatMul(number_density, shell_volumes[k])]
         IN [raised |-> FALSE, error |-> None,
             value |-> [k \in 1 .. Len(hist) |->
                           NormalizedBin(hist[k], n, norm[k])]]

NotCalled == [raised |-> FALSE, value |-> <<>>, error |-> None]

ShellIdle ==
    /\ sn_hist = <<>>
    /\ sn_bins = <<>>
    /\ sn_box = NumpyFloat(1)
    /\ sn_n = 0
    /\ sn_out = NotCalled
    /\ sn_pc = "idle"

\* A call of shell_normalize: a histogram over the bins, a box volume and a
\* particle count.
ShellInit ==
    /\ sn_bins \in BinEdgeLists
    /\ sn_hist \in [1 .. Len(sn_bins) - 1 -> 0 .. MaxCount]
    /\ sn_box \in BoxVolumes
    /\ sn_n \in 0 .. MaxParticles
    /\ sn_out = NotCalled
    /\ sn_pc = "start"

ShellNormalizeCall ==
    /\ sn_pc = "start"
    /\ sn_out' = shell_normalize(sn_hist, sn_bins, sn_box, sn_n)
    /\ sn_pc' = "done"
    /\ UNCHANGED <<sn_hist, sn_bins, sn_box, sn_n>>

ShellNext == ShellNormalizeCall /\ UNCHANGED outsideShell

----------------------------------------------------------------------------
(* RadialAnalyzer, analyzers/radial.py, with safe_histogram, gr,           *)
(* local_density and distance_weighted, core/matrix_math.py. Coordinates   *)
(* are integer points and a pairwise distance is held by its square; the   *)
(* plots are left out.                                                     *)

\* The coordinates a partition holds.
RadCoordValues == {<<0, 0, 0>>, <<6, 0, 0>>, <<0, 12, 0>>}

\* self.config of the analyzer
RadialConfigs == [bin_size : {10}, min_distance : {0, 10}, max_distance : {30}]

RadTomograms == <<"T1", "T2">>

\* DISTRIBUTIONS: the distribution types, in the order of the dict
DistTypes == <<"rdf", "local_density", "distance_weighted">>

\* DISTRIBUTIONS[dist_type]['key']
DistKey(dist_type) == IF dist_type = "rdf" THEN "g_r" ELSE dist_type

\* np.arange(0, stop, step)
Arange(stop, step) ==
    [k \in 1 .. ((stop + step - 1) \div step) |-> (k - 1) * step]

\* _create_bins: the bin edges
create_bins(cfg) == Arange(cfg.max_distance + cfg.bin_size, cfg.bin_size)

\* 0.5 * (bins[1:] + bins[:-1])
BinCenters(bins) ==
    [k \in 1 .. Len(bins) - 1 |-> Frac(bins[k + 1] + bins[k], 2)]

\* dist_matrix[np.triu_indices_from(dist_matrix, k=1)], squared
RECURSIVE TriuDistances(_, _, _)
TriuDistances(cs, i, j) ==
    IF i >= Len(cs) THEN <<>>
    ELSE IF j > Len(cs) THEN TriuDistances(cs, i + 1, i + 2)
    ELSE <<Dist2(cs[i], cs[j])>> \o TriuDistances(cs, i, j + 1)

\* Whether np.histogram counts a distance in bin k: the bins are half open,
\* the last one is closed.
InBin(d2, bins, k) ==
    /\ bins[k] * bins[k] <= d2
    /\ IF k = Len(bins) - 1 THEN d2 <= bins[k + 1] * bins[k + 1]
       ELSE d2 < bins[k + 1] * bins[k + 1]

\* safe_histogram(distances, bins)
safe_histogram(distances, bins) ==
    [k \in 1 .. Len(bins) - 1 |->
        Cardinality({p \in 1 .. Len(distances) : InBin(distances[p], bins, k)})]

\* gr(distances, bins, box_volume, n_particles), with a box volume that
\* shell_normalize accepts
gr(distances, bins, box_volume, n) ==
    shell_normalize(safe_histogram(distances, bins), bins, box_volume, n).value

\* local_density(distances, bins, box_volume, n_particles)
local_density(distances, bins, box_volume, n) ==
    LET hist == safe_histogram(distances, bins)
        shell_volumes == ShellVolumes(bins)
        expected_pairs ==
            [k \in 1 .. Len(hist) |->
                FloatMul(Frac(n * (n - 1), 2),
                         FloatDiv(shell_volumes[k], Num(box_volume.value)))]
    IN [k \in 1 .. Len(hist) |->
           IF NotZero(expected_pairs[k])
           THEN FloatDiv(Num(hist[k]), expected_pairs[k])
           ELSE Zero]

\* distance_weighted(distances, bins)
distance_weighted(distances, bins) ==
    LET hist == safe_histogram(distances, bins)
        bin_centers == BinCenters(bins)
        r_squared == [k \in 1 .. Len(hist) |->
                         FloatMul(bin_centers[k], bin_centers[k])]
    IN [k \in 1 .. Len(hist) |->
           IF NotZero(r_squared[k])
           THEN FloatDiv(Num(hist[k]), r_squared[k])
           ELSE Zero]

MaxOf(S) == CHOOSE m \in S : \A x \in S : x <= m

MinOf(S) == CHOOSE m \in S : \A x \in S : m <= x

\* The range of an axis without the floor of 1.0.
CoordRangeNoFloor(cs, axis) ==
    LET column == {cs[p][axis] : p \in 1 .. Len(cs)}
    IN MaxOf(column) - MinOf(column)

\* coords.max(axis=0) - coords.min(axis=0), then np.maximum(..., 1.0)
CoordRange(cs, axis) ==
    LET column == {cs[p][axis] : p \in 1 .. Len(cs)}
        range == MaxOf(column) - MinOf(column)
    IN IF range < 1 THEN 1 ELSE range

\* The whole-number part of the root of a squared distance.
WholeRoot(d2) == CHOOSE r \in 0 .. d2 : r * r <= d2 /\ d2 < (r + 1) * (r + 1)

\* (np.mean(distances) ** 3) * n_particles of the fallback, in whole
\* numbers: the distances are kept squared and their roots rounded down.
FallbackVolume(distances, n) ==
    LET mean_nn_dist ==
            SumSeq([k \in 1 .. Len(distances) |-> WholeRoot(distances[k])])
                \div Len(distances)
    IN mean_nn_dist * mean_nn_dist * mean_nn_dist * n

\* _calculate_box_volume: the Python float 1.0 for fewer than 2 particles,
\* else the numpy product of the floored ranges; a product <= 0 is logged
\* and replaced by the fallback, 1000.0 when there is no distance.
\* fallback tells whether the warning was logged.
calculate_box_volume(cs, distances, n) ==
    IF n < 2 THEN [value |-> 1, numpy |-> FALSE, fallback |-> FALSE]
    ELSE LET box_volume ==
                 CoordRange(cs, 1) * CoordRange(cs, 2) * CoordRange(cs, 3)
         IN IF box_volume <= 0
            THEN [value |-> IF Len(distances) > 0
                            THEN FallbackVolume(distances, n)
                            ELSE 1000,
                  numpy |-> Len(distances) > 0,
                  fallback |-> TRUE]
            ELSE [value |-> box_volume, numpy |-> TRUE, fallback |-> FALSE]

ZeroArray(len) == [k \in 1 .. len |-> Zero]

InsufficientBelowTwo(n) == n < 2

\* _calculate_distributions: n_particles < 3
Insufficient(n) == n < 3

\* _calculate_distributions(distances, bins, box_volume, n_particles)
calculate_distributions(distances, bins, box_volume, n) ==
    IF Insufficient(n)
    THEN LET zeros == ZeroArray(Len(BinCenters(bins)))
         IN [g_r |-> zeros, local_density |-> zeros,
             distance_weighted |-> zeros, insufficient_particles |-> TRUE]
    ELSE [g_r |-> gr(distances, bins, box_volume, n),
          local_density |-> local_density(distances, bins, box_volume, n),
          distance_weighted |-> distance_weighted(distances, bins),
          insufficient_particles |-> FALSE]

\* a < b of finite numbers
FloatLess(a, b) == a.num * b.den < b.num * a.den

\* results[key][mask] = 0 with mask = results['distances'] < min_distance
MaskBelow(values, bin_centers, min_distance) ==
    [k \in 1 .. Len(values) |->
        IF FloatLess(bin_centers[k], Num(min_distance)) THEN Zero
        ELSE values[k]]

\* RadialAnalyzer._analyze(data, coords, dist_matrix)
radial_analyze(cs, cfg) ==
    LET n == Len(cs)
        distances == TriuDistances(cs, 1, 2)
        bins == create_bins(cfg)
        bin_centers == BinCenters(bins)
        box_volume == calculate_box_volume(cs, distances, n)
        d == calculate_distributions(distances, bins, box_volume, n)
    IN [distances |-> bin_centers,
        raw_distances |-> distances,
        particle_density |->
            IF box_volume.value > 0
            THEN FloatDiv(Num(n), Num(box_volume.value)) ELSE Zero,
        g_r |-> MaskBelow(d.g_r, bin_centers, cfg.min_distance),
        local_density |->
            MaskBelow(d.local_density, bin_centers, cfg.min_distance),
        distance_weighted |->
            MaskBelow(d.distance_weighted, bin_centers, cfg.min_distance),
        insufficient_particles |-> d.insufficient_particles]

NoRadialAnalysis == [insufficient_particles |-> FALSE, distances |-> <<>>]

\* _save_data(data, filename, prefix): the file is written under its name
SaveData(files, prefix, name, content) ==
    LET key == <<prefix, name>>
    IN [f \in DOMAIN files \cup {key} |->
           IF f = key THEN content ELSE files[f]]

NoFiles == [f \in {} |-> <<>>]

\* The loop of _save_tomogram_results over DISTRIBUTIONS.
RECURSIVE SaveDistributions(_, _, _, _)
SaveDistributions(files, tomogram, res, k) ==
    IF k > Len(DistTypes) THEN files
    ELSE SaveDistributions(
            SaveData(files, "data", <<tomogram, "_", DistTypes[k]>>,
                     [Distance |-> res.distances,
                      values |-> res[DistKey(DistTypes[k])]]),
            tomogram, res, k + 1)

SkipsNothing(res) == FALSE

\* result.get('insufficient_particles', False) of _collect_tomogram_data
SkipsTomogram(res) == res.insufficient_particles

\* pd.DataFrame(data_dict): one row per bin
TomogramFrame(tomogram, res) ==
    [k \in 1 .. Len(res.distances) |->
        [Distance |-> res.distances[k], Tomogram |-> tomogram,
         g_r |-> res.g_r[k], local_density |-> res.local_density[k],
         distance_weighted |-> res.distance_weighted[k]]]

\* _is_valid_density(result)
is_valid_density(res) ==
    IsFinite(res.particle_density) /\ GreaterZero(res.particle_density)

\* The loop of _collect_tomogram_data over the results.
RECURSIVE CollectLoop(_, _, _)
CollectLoop(tomograms, k, st) ==
    IF k > Len(tomograms) THEN st
    ELSE LET tomogram == tomograms[k][1]
             res == tomograms[k][2]
         IN IF SkipsTomogram(res)
            THEN CollectLoop(tomograms, k + 1,
                    [st EXCEPT
                       !.skipped = Append(@, tomogram),
                       !.logs = Append(@, [level |-> "info",
                                           what |-> "Skipping tomogram",
                                           name |-> tomogram])])
            ELSE CollectLoop(tomograms, k + 1,
                    [st EXCEPT
                       !.dfs = Append(@, TomogramFrame(tomogram, res)),
                       !.all_distances = @ \o res.raw_distances,
                       !.density_data =
                           IF is_valid_density(res)
                           THEN Append(@, [Tomogram |-> tomogram,
                                           Particle_Density |->
                                               res.particle_density])
                           ELSE @])

\* _collect_tomogram_data(results)
collect_tomogram_data(tomograms, log) ==
    CollectLoop(tomograms, 1,
        [dfs |-> <<>>, all_distances |-> <<>>, density_data |-> <<>>,
         skipped |-> <<>>, logs |-> log])

\* pd.concat(dfs, ignore_index=True)
RECURSIVE Concat(_)
Concat(frames) ==
    IF frames = <<>> THEN <<>> ELSE Head(frames) \o Concat(Tail(frames))

RECURSIVE FloatSum(_)
FloatSum(q) == IF q = <<>> THEN Zero ELSE FloatAdd(q[1], FloatSum(Tail(q)))

\* .agg(['mean', 'std', 'count']) of one column of one group; the standard
\* deviation is held by the values it is taken over
Aggregate(values) ==
    [mean |-> FloatDiv(FloatSum(values), Num(Len(values))),
     std_of |-> values,
     count |-> Len(values)]

\* The distinct values of a column, ascending: the groups of groupby.
RECURSIVE SortedDistinct(_)
SortedDistinct(S) ==
    IF S = {} THEN <<>>
    ELSE LET least == CHOOSE m \in S : \A x \in S : x = m \/ FloatLess(m, x)
         IN <<least>> \o SortedDistinct(S \ {least})

\* _calculate_averages(combined_df)
calculate_averages(combined_df) ==
    LET rows == 1 .. Len(combined_df)
        groups == SortedDistinct({combined_df[r].Distance : r \in rows})
        Of(distance, key) ==
            LET members == SelectSeq(combined_df,
                               LAMBDA row : row.Distance = distance)
            IN [r \in 1 .. Len(members) |-> members[r][key]]
    IN [g \in 1 .. Len(groups) |->
           [Distance |-> groups[g],
            g_r |-> Aggregate(Of(groups[g], "g_r")),
            local_density |-> Aggregate(Of(groups[g], "local_density")),
            distance_weighted |->
                Aggregate(Of(groups[g], "distance_weighted"))]]

\* The loop of _save_average_distributions over DISTRIBUTIONS.
RECURSIVE SaveAverages(_, _, _)
SaveAverages(files, avg_df, k) ==
    IF k > Len(DistTypes) THEN files
    ELSE SaveAverages(
            SaveData(files, "combined", <<"average_", DistTypes[k]>>,
                     [g \in 1 .. Len(avg_df) |->
                         [Distance |-> avg_df[g].Distance,
                          mean |-> avg_df[g][DistKey(DistTypes[k])].mean,
                          std_of |->
                              avg_df[g][DistKey(DistTypes[k])].std_of]]),
            avg_df, k + 1)

\* distances_array[(d >= min_distance) & (d <= max_distance)], squared
FilterDistances(all_distances, cfg) ==
    SelectSeq(all_distances,
        LAMBDA d2 : /\ d2 >= cfg.min_distance * cfg.min_distance
                    /\ d2 <= cfg.max_distance * cfg.max_distance)

\* The None that _analyze_density_stats returns for no valid data.
NoDensityStats == [mean_density |-> NaN, std_of |-> <<>>,
                   min_density |-> NaN, max_density |-> NaN]

\* _analyze_density_stats(density_data)
analyze_density_stats(density_data) ==
    IF density_data = <<>> THEN NoDensityStats
    ELSE LET values == [k \in 1 .. Len(density_data) |->
                           density_data[k].Particle_Density]
             S == {values[k] : k \in 1 .. Len(values)}
         IN [mean_density |-> FloatDiv(FloatSum(values), Num(Len(values))),
             std_of |-> values,
             min_density |->
                 CHOOSE m \in S : \A x \in S : x = m \/ FloatLess(m, x),
             max_density |->
                 CHOOSE m \in S : \A x \in S : x = m \/ FloatLess(x, m)]

NotRadCombined == [skipped_tomograms |-> <<>>, data |-> <<>>]

RadIdle ==
    /\ rad_config = [bin_size |-> 0, min_distance |-> 0, max_distance |-> 0]
    /\ rad_input = <<>>
    /\ rad_todo = <<>>
    /\ rad_analysis = NoRadialAnalysis
    /\ rad_results = <<>>
    /\ rad_files = NoFiles
    /\ rad_combined = NotRadCombined
    /\ rad_logs = <<>>
    /\ rad_err = None
    /\ rad_pc = "idle"

\* The partitions handed to _process_tomogram, each with its coordinates.
RadInit ==
    /\ rad_config \in RadialConfigs
    /\ rad_input \in
         [1 .. Len(RadTomograms) ->
             UNION {[1 .. n -> RadCoordValues] : n \in 0 .. MaxParticles}]
    /\ rad_todo = RadTomograms
    /\ rad_analysis = NoRadialAnalysis
    /\ rad_results = <<>>
    /\ rad_files = NoFiles
    /\ rad_combined = NotRadCombined
    /\ rad_logs = <<>>
    /\ rad_err = None
    /\ rad_pc = "next"
    /\ coords = <<>>

\* _process_tomogram up to the call of _analyze: the coordinates are read.
RadReadTomogram ==
    /\ rad_pc = "next"
    /\ rad_todo # <<>>
    /\ coords' = rad_input[Len(rad_results) + 1]
    /\ rad_pc' = "read"
    /\ UNCHANGED <<rad_config, rad_input, rad_todo, rad_analysis, rad_results,
                   rad_files, rad_combined, rad_logs, rad_err>>

\* self._analyze(data, coords, dist_matrix); the warning of
\* _calculate_box_volume goes to the analyzer's logger.
RadAnalyze ==
    /\ rad_pc = "read"
    /\ rad_analysis' = radial_analyze(coords, rad_config)
    /\ rad_logs' =
          IF calculate_box_volume(coords, TriuDistances(coords, 1, 2),
                                  Len(coords)).fallback
          THEN Append(rad_logs, [level |-> "warning",
                                 what |-> "Invalid box volume",
                                 name |-> Head(rad_todo)])
          ELSE rad_logs
    /\ rad_pc' = "analyzed"
    /\ UNCHANGED <<rad_config, rad_input, rad_todo, rad_results, rad_files,
                   rad_combined, rad_err, coords>>

\* self._save_tomogram_results(tomogram, results), then the return of
\* (tomogram, results).
RadSave ==
    /\ rad_pc = "analyzed"
    /\ LET tomogram == Head(rad_todo)
       IN /\ IF rad_analysis.insufficient_particles
             THEN /\ rad_logs' = Append(rad_logs,
                                    [level |-> "info",
                                     what |-> "Skipping result saving",
                                     name |-> tomogram])
                  /\ UNCHANGED rad_files
             ELSE /\ rad_files' = SaveDistributions(rad_files, tomogram,
                                                    rad_analysis, 1)
                  /\ UNCHANGED rad_logs
          /\ rad_results' = Append(rad_results, <<tomogram, rad_analysis>>)
    /\ rad_todo' = Tail(rad_todo)
    /\ rad_pc' = "next"
    /\ UNCHANGED <<rad_config, rad_input, rad_analysis, rad_combined, rad_err,
                   coords>>

\* _combine_results(results): pd.concat raises ValueError when every
\* tomogram was skipped.
RadCombine ==
    /\ rad_pc = "next"
    /\ rad_todo = <<>>
    /\ LET c == collect_tomogram_data(rad_results, rad_logs)
       IN /\ rad_logs' = c.logs
          /\ IF c.dfs = <<>>
             THEN /\ rad_err' = Raised("ValueError",
                                       <<"No objects to concatenate">>)
                  /\ rad_pc' = "raised"
                  /\ UNCHANGED <<rad_files, rad_combined>>
             ELSE LET combined_df == Concat(c.dfs)
                      avg_df == calculate_averages(combined_df)
                      f1 == SaveAverages(
                                SaveData(rad_files, "combined",
                                         <<"average_all_methods">>, avg_df),
                                avg_df, 1)
                      filtered == FilterDistances(c.all_distances, rad_config)
                      f2 == IF filtered # <<>>
                            THEN SaveData(f1, "combined",
                                          <<"distance_frequency">>, filtered)
                            ELSE f1
                      density_stats == analyze_density_stats(c.density_data)
                      f3 == IF density_stats # NoDensityStats
                            THEN SaveData(f2, "combined",
                                          <<"density_statistics">>,
                                          c.density_data)
                            ELSE f2
                  IN /\ rad_files' = f3
                     /\ rad_combined' =
                            [data |-> combined_df, average |-> avg_df,
                             density_stats |-> density_stats,
                             skipped_tomograms |-> c.skipped]
                     /\ rad_pc' = "combined"
                     /\ UNCHANGED rad_err
    /\ UNCHANGED <<rad_config, rad_input, rad_todo, rad_analysis, rad_results,
                   coords>>

RadialNext ==
    \/ RadReadTomogram /\ UNCHANGED outsideRadial
    \/ RadAnalyze /\ UNCHANGED outsideRadial
    \/ RadSave /\ UNCHANGED outsideRadial
    \/ RadCombine /\ UNCHANGED outsideRadial

----------------------------------------------------------------------------
(* prepare_star_data, analyzers/base.py, from format_input_star to the     *)
(* call of classify_star, with apply_shift and scale_coord,                *)
(* core/star_handler.py. The table is in RELION format (no 'wrp' columns). *)

\* The optics section of a table: its rlnImagePixelSize column.
NoOptics == [present |-> FALSE, rlnImagePixelSize |-> <<>>]

Optics(pixel_size) == [present |-> TRUE, rlnImagePixelSize |-> <<pixel_size>>]

\* The sections format_input_star reads: an optics section or none, and a
\* particles section with or without the rlnOrigin*Angst columns, which
\* hold the same shift in every row.
StarSections ==
    [optics : {NoOptics, Optics(1), Optics(2)},
     shift_columns : BOOLEAN,
     origin : {<<0, 0, 0>>, <<4, 8, 12>>}]

\* rlnCoordinateX, rlnCoordinateY, rlnCoordinateZ of row r of the input
RowCoord(r) == <<10 * r, 20 * r, 30 * r>>

\* p['rlnCoordinateX'] - p['rlnOriginXAngst'] / pixel, and Y and Z
Shifted(c, origin, pixel) ==
    [a \in 1 .. 3 |-> c[a] - (origin[a] \div pixel)]

\* apply_shift(star): the shifted coordinates, or the ProcessingError its
\* except clause raises.
apply_shift(sections, cs) ==
    IF ~sections.optics.present
    THEN [raised |-> TRUE, particles |-> cs,
          error |-> Wrap("ProcessingError", "Failed to apply shifts: ",
                         Raised("ProcessingError",
                                <<"Missing optics data">>))]
    ELSE IF ~sections.shift_columns
    THEN [raised |-> TRUE, particles |-> cs,
          error |-> Wrap("ProcessingError", "Failed to apply shifts: ",
                         Raised("ProcessingError",
                                <<"Missing coordinate or shift columns">>))]
    ELSE [raised |-> FALSE, error |-> None,
          particles |->
              [r \in 1 .. Len(cs) |->
                  Shifted(cs[r], sections.origin,
                          sections.optics.rlnImagePixelSize[1])]]

\* scale_coord(particles, x, y, z)
scale_coord(cs, x, y, z) ==
    [r \in 1 .. Len(cs) |-> <<cs[r][1] * x, cs[r][2] * y, cs[r][3] * z>>]

StarIdle ==
    /\ star_sections = [optics |-> NoOptics, shift_columns |-> FALSE,
                        origin |-> <<0, 0, 0>>]
    /\ star_coords = <<>>
    /\ scaled_by = <<>>
    /\ prepare_err = None

\* An analyzer whose input file holds a table: prepare_star_data is about
\* to read it.
StarInit ==
    /\ star_sections \in StarSections
    /\ tag_column \in Tables(ProcTags, MaxRows)
    /\ star_coords = [r \in 1 .. Len(tag_column) |-> RowCoord(r)]
    /\ scaled_by = <<>>
    /\ prepare_err = None
    /\ partial_match = -1
    /\ star_particles = AllRows(tag_column)
    /\ fs = <<>>
    /\ sub_files = <<>>
    /\ filtered_files = <<>>
    /\ logs = <<>>
    /\ prepare_calls = <<>>
    /\ prep_pc = "input"

\* prepare_star_data from format_input_star to the return of apply_shift,
\* or to the except clause when apply_shift raises.
PrepareApplyShift ==
    /\ prep_pc = "input"
    /\ LET s == apply_shift(star_sections, star_coords)
       IN IF s.raised
          THEN /\ prepare_err' = PrepareCatch(s.error)
               /\ prep_pc' = "raised"
               /\ UNCHANGED star_coords
          ELSE /\ star_coords' = s.particles
               /\ prep_pc' = "shifted"
               /\ UNCHANGED prepare_err
    /\ UNCHANGED <<star_sections, scaled_by, tag_column, partial_match,
                   star_particles, fs, sub_files, filtered_files, logs,
                   prepare_calls>>

\* prepare_star_data from the test 'optics' in star_data to the call of
\* format_output_star.
PrepareScale ==
    /\ prep_pc = "shifted"
    /\ IF star_sections.optics.present
       THEN LET pixel_size == star_sections.optics.rlnImagePixelSize[1]
            IN /\ logs' = Append(logs, [level |-> "info",
                                        what |-> "Scaling coordinates",
                                        pixel_size |-> pixel_size])
               /\ star_coords' = scale_coord(star_coords, pixel_size,
                                             pixel_size, pixel_size)
               /\ scaled_by' = Append(scaled_by, pixel_size)
       ELSE UNCHANGED <<logs, star_coords, scaled_by>>
    /\ prep_pc' = "start"
    /\ UNCHANGED <<star_sections, prepare_err, tag_column, partial_match,
                   star_particles, fs, sub_files, filtered_files,
                   prepare_calls>>

StarPrepareNext ==
    \/ PrepareApplyShift /\ UNCHANGED outsideStarPrepare
    \/ PrepareScale /\ UNCHANGED outsideStarPrepare
    \/ PrepareClassify("radial") /\ UNCHANGED <<outsideStarPrepare, starVars>>
    \/ PrepareFilter /\ UNCHANGED <<outsideStarPrepare, starVars>>

----------------------------------------------------------------------------
(* dfs, core/matrix_math.py, and the two clusterings side by side          *)

\* A dfs that adds the particle and visits no neighbour.
dfsNoRecursion(particle, visited, adj, cluster) ==
    [visited |-> visited \cup {particle},
     cluster |-> Append(cluster, particle)]

\* np.where(adjacency_matrix[particle])[0], as a set of indices.
Neighbors(adj, particle) ==
    {j \in {ij[2] : ij \in DOMAIN adj} : adj[<<particle, j>>]}

\* dfs: visited and cluster after the call.  VisitNeighbors is the loop
\* "for neighbor in neighbors", in ascending order, over what is left of it.
RECURSIVE dfs(_, _, _, _)
RECURSIVE VisitNeighbors(_, _, _)
dfs(particle, visited, adj, cluster) ==
    VisitNeighbors([visited |-> visited \cup {particle},
                    cluster |-> Append(cluster, particle)],
                   adj, Neighbors(adj, particle))

VisitNeighbors(s, adj, left) ==
    IF left = {} THEN s
    ELSE LET neighbor == CHOOSE j \in left : \A k \in left : j <= k
             t == IF neighbor \notin s.visited
                  THEN dfs(neighbor, s.visited, adj, s.cluster)
                  ELSE s
         IN VisitNeighbors(t, adj, left \ {neighbor})

\* dfs from each particle not yet visited, in index order: the clusters.
RECURSIVE DfsFrom(_, _, _, _, _)
DfsFrom(i, n, visited, adj, found) ==
    IF i >= n THEN found
    ELSE IF i \in visited THEN DfsFrom(i + 1, n, visited, adj, found)
    ELSE LET r == dfs(i, visited, adj, <<>>)
         IN DfsFrom(i + 1, n, r.visited, adj, Append(found, r.cluster))

\* Every order of the elements of a set, as sequences.
RECURSIVE Orders(_)
Orders(S) ==
    IF S = {} THEN {<<>>}
    ELSE UNION {{<<e>> \o o : o \in Orders(S \ {e})} : e \in S}

SeqRange(q) == {q[k] : k \in 1 .. Len(q)}

DfsIdle == dfs_clusters = <<>>

\* Entry with a symmetric matrix; the adjacent pairs are merged in any order.
OrdersInit ==
    /\ n_particles \in 0 .. MaxParticles
    /\ adjacency_matrix \in
          {m \in [Idx(n_particles) \X Idx(n_particles) -> BOOLEAN] :
              \A i, j \in Idx(n_particles) : m[<<i, j>>] = m[<<j, i>>]}
    /\ uf = UnionFindInit(n_particles)
    /\ pairs \in Orders(SeqRange(TriuPairs(adjacency_matrix, n_particles)))
    /\ pair_pos = 0
    /\ clusters = <<>>
    /\ size_distribution = <<>>
    /\ cpc = "merge"
    /\ dfs_clusters = <<>>

\* The recursive traversal of the same matrix, after the union-find result.
DfsRun ==
    /\ cpc = "done"
    /\ dfs_clusters' = DfsFrom(0, n_particles, {}, adjacency_matrix, <<>>)
    /\ cpc' = "compared"
    /\ UNCHANGED <<n_particles, adjacency_matrix, uf, pairs, pair_pos,
                   clusters, size_distribution>>

OrdersNext ==
    \/ MergePair /\ UNCHANGED outsideCluster
    \/ Collect /\ UNCHANGED outsideCluster
    \/ DfsRun /\ UNCHANGED outsideDfs

----------------------------------------------------------------------------
(* Specifications                                                          *)

InitCluster ==
    ClusterInit /\ PrepIdle /\ ParIdle /\ ProcIdle /\ SpatialIdle /\ PartIdle
        /\ CaIdle /\ OaIdle /\ ShellIdle /\ RadIdle /\ StarIdle
        /\ UfIdle /\ DfsIdle /\ ReportIdle

SpecCluster == InitCluster /\ [][ClusterNext]_vars

InitUnionFind ==
    UfInit /\ PrepIdle /\ ParIdle /\ ProcIdle /\ SpatialIdle /\ PartIdle
        /\ CaIdle /\ OaIdle /\ ShellIdle /\ RadIdle /\ StarIdle
        /\ DfsIdle /\ ReportIdle

SpecUnionFind == InitUnionFind /\ [][UnionFindNext]_vars

InitOrders ==
    OrdersInit /\ PrepIdle /\ ParIdle /\ ProcIdle /\ SpatialIdle /\ PartIdle
        /\ CaIdle /\ OaIdle /\ ShellIdle /\ RadIdle /\ StarIdle
        /\ UfIdle /\ ReportIdle

SpecOrders == InitOrders /\ [][OrdersNext]_vars

InitPrepare ==
    PrepInit /\ ClusterIdle /\ ParIdle /\ ProcIdle /\ SpatialIdle /\ PartIdle
        /\ CaIdle /\ OaIdle /\ ShellIdle /\ RadIdle /\ StarIdle
        /\ UfIdle /\ DfsIdle /\ ReportIdle

SpecPrepare == InitPrepare /\ [][PrepNext]_vars

InitParallel ==
    ParInit /\ ClusterIdle /\ PrepIdle /\ ProcIdle /\ SpatialIdle /\ PartIdle
        /\ CaIdle /\ OaIdle /\ ShellIdle /\ RadIdle /\ StarIdle
        /\ UfIdle /\ DfsIdle /\ ReportIdle

SpecParallel == InitParallel /\ [][ParNext]_vars

InitProcess ==
    ProcInit /\ ClusterIdle /\ ParIdle /\ SpatialIdle /\ PartIdle
        /\ CaIdle /\ OaIdle /\ ShellIdle /\ RadIdle /\ StarIdle
        /\ UfIdle /\ DfsIdle /\ ReportIdle

SpecProcess == InitProcess /\ [][ProcNext]_vars

InitSpatial ==
    SpatialInit /\ ClusterIdle /\ ParIdle /\ ProcIdle /\ PartIdle /\ CaIdle
        /\ OaIdle /\ ShellIdle /\ RadIdle /\ StarIdle
        /\ UfIdle /\ DfsIdle /\ ReportIdle

SpecSpatial == InitSpatial /\ [][SpatialNext]_vars

InitClusterRun ==
    CaInit /\ ClusterIdle /\ PrepIdle /\ ParIdle /\ ProcIdle /\ SpatialIdle
        /\ OaIdle /\ ShellIdle /\ RadIdle /\ StarIdle
        /\ UfIdle /\ DfsIdle /\ ReportIdle

SpecClusterRun == InitClusterRun /\ [][ClusterRunNext]_vars

InitOrientation ==
    OaInit /\ ClusterIdle /\ PrepIdle /\ ParIdle /\ ProcIdle /\ SpatialIdle
        /\ CaIdle /\ ShellIdle /\ RadIdle /\ StarIdle
        /\ UfIdle /\ DfsIdle /\ ReportIdle

SpecOrientation == InitOrientation /\ [][OrientationNext]_vars

InitOrientationReport ==
    OaInit /\ ClusterIdle /\ PrepIdle /\ ParIdle /\ ProcIdle /\ SpatialIdle
        /\ CaIdle /\ ShellIdle /\ RadIdle /\ StarIdle
        /\ UfIdle /\ DfsIdle /\ ReportIdle

SpecOrientationReport == InitOrientationReport /\ [][OrientationReportNext]_vars

InitShell ==
    ShellInit /\ ClusterIdle /\ PrepIdle /\ ParIdle /\ ProcIdle /\ SpatialIdle
        /\ PartIdle /\ CaIdle /\ OaIdle /\ RadIdle /\ StarIdle
        /\ UfIdle /\ DfsIdle /\ ReportIdle

SpecShell == InitShell /\ [][ShellNext]_vars

InitRadial ==
    RadInit /\ ClusterIdle /\ PrepIdle /\ ParIdle /\ ProcIdle /\ SpatialIdle
        /\ CaIdle /\ OaIdle /\ ShellIdle /\ StarIdle
        /\ UfIdle /\ DfsIdle /\ ReportIdle

SpecRadial == InitRadial /\ [][RadialNext]_vars

InitStarPrepare ==
    StarInit /\ ClusterIdle /\ ParIdle /\ ProcIdle /\ SpatialIdle /\ PartIdle
        /\ CaIdle /\ OaIdle /\ ShellIdle /\ RadIdle
        /\ UfIdle /\ DfsIdle /\ ReportIdle

SpecStarPrepare == InitStarPrepare /\ [][StarPrepareNext]_vars

----------------------------------------------------------------------------
(* Properties of find_particle_clusters                                    *)

Members(k) == {clusters[k][m] : m \in 1 .. Len(clusters[k])}

\* Particle i has no adjacent neighbour: no true entry joins it to another
\* particle, in either direction.
Isolated(i) ==
    \A j \in Idx(n_particles) \ {i} :
        ~adjacency_matrix[<<i, j>>] /\ ~adjacency_matrix[<<j, i>>]

Symmetric ==
    \A i, j \in Idx(n_particles) :
        adjacency_matrix[<<i, j>>] = adjacency_matrix[<<j, i>>]

\* The particles reachable from the set S through adjacency-true pairs.
RECURSIVE ReachFrom(_)
ReachFrom(S) ==
    LET T == S \cup {j \in Idx(n_particles) :
                        \E i \in S : i # j /\ adjacency_matrix[<<i, j>>]}
    IN IF T = S THEN S ELSE ReachFrom(T)

SameCluster(i, j) ==
    \E k \in 1 .. Len(clusters) : i \in Members(k) /\ j \in Members(k)

\* C1: for every boolean adjacency matrix the returned clusters are pairwise
\* disjoint, list no particle twice, together cover exactly {0..N-1}, and
\* every particle without an adjacent neighbour is a singleton cluster.
C1_ClusterPartition ==
    cpc = "done" =>
        /\ \A k \in 1 .. Len(clusters) :
              Cardinality(Members(k)) = Len(clusters[k])
        /\ \A k, l \in 1 .. Len(clusters) :
              k # l => Members(k) \cap Members(l) = {}
        /\ UNION {Members(k) : k \in 1 .. Len(clusters)} = Idx(n_particles)
        /\ \A i \in Idx(n_particles) :
              Isolated(i) => \E k \in 1 .. Len(clusters) : clusters[k] = <<i>>

\* A finished run on three particles with one isolated particle and one
\* merged pair.
C1_Witness ==
    /\ cpc = "done"
    /\ n_particles = 3
    /\ \E i \in Idx(n_particles) : Isolated(i)
    /\ \E k \in 1 .. Len(clusters) : Len(clusters[k]) = 2

\* C2: on a symmetric adjacency matrix two particles share a cluster exactly
\* when one is reachable from the other through adjacency-true pairs.
C2_ClustersAreComponents ==
    (cpc = "done" /\ Symmetric) =>
        \A i, j \in Idx(n_particles) :
            SameCluster(i, j) <=> j \in ReachFrom({i})

\* A finished run where particles 0 and 2 are not adjacent but are joined
\* through particle 1, and end in one cluster.
C2_Witness ==
    /\ cpc = "done"
    /\ Symmetric
    /\ n_particles = 3
    /\ ~adjacency_matrix[<<0, 2>>]
    /\ adjacency_matrix[<<0, 1>>]
    /\ adjacency_matrix[<<1, 2>>]
    /\ SameCluster(0, 2)

----------------------------------------------------------------------------
(* Properties of classify_star and of the minimum-size filter              *)

RowsIn(path) == IF path \in DOMAIN fs THEN fs[path] ELSE <<>>

Occurrences(r, path) ==
    Cardinality({m \in 1 .. Len(RowsIn(path)) : RowsIn(path)[m] = r})

PartitionPaths == {sub_files[k] : k \in 1 .. Len(sub_files)}

\* The grouping keys of the input table.
TableKeys ==
    {GroupKey(tag_column[r], partial_match) : r \in 1 .. Len(tag_column)}

SubDirOf(path) == path.dir

\* Two grouping keys of the table share one sub-file name.
NameClash ==
    \E v, w \in TableKeys : v # w /\ OutputName(v) = OutputName(w)

Complete ==
    /\ \A r \in 1 .. Len(tag_column) :
          \E q \in PartitionPaths :
              /\ Occurrences(r, q) = 1
              /\ \A o \in PartitionPaths \ {q} : Occurrences(r, o) = 0
    /\ \A q \in PartitionPaths :
          \A a, b \in {RowsIn(q)[m] : m \in 1 .. Len(RowsIn(q))} :
              GroupKey(tag_column[a], partial_match)
                  = GroupKey(tag_column[b], partial_match)

\* C6: once classify_star has returned (and before the minimum-size filter)
\* the sub-files it wrote hold every row of the table exactly once, and the
\* rows of one sub-file share one grouping key.
C6_PartitionCompleteness ==
    prep_pc \in {"classify_returned", "classified"} => Complete

\* C6, for the tables whose grouping keys get pairwise distinct file names.
C6_CompleteWithoutNameClash ==
    (prep_pc \in {"classify_returned", "classified"} /\ ~NameClash)
        => Complete

\* A classified table of at least two partitions, grouped by a path prefix.
C6_Witness ==
    /\ prep_pc = "classify_returned"
    /\ partial_match = 1
    /\ ~NameClash
    /\ Cardinality(PartitionPaths) = 2
    /\ Len(tag_column) = 4

Logged(name) ==
    \E k \in 1 .. Len(logs) :
        \/ logs[k].what \in {"Skipping", "Error reading"} /\ logs[k].name = name
        \/ /\ logs[k].what = "Filtered out"
           /\ \E m \in 1 .. Len(logs[k].names) : logs[k].names[m] = name

HandedOver == {filtered_files[k] : k \in 1 .. Len(filtered_files)}

Undersized(v) ==
    Len(Subset(tag_column, partial_match, v)) < MinParticles

Dropped(v) ==
    LET sub_file == SubFile(<<"radial", "sub_files">>, v)
    IN /\ sub_file \notin HandedOver
       /\ sub_file \notin DOMAIN fs
       /\ Logged(Stem(sub_file))

\* C7: after the prepare step every sub-file handed to the parallel stage
\* holds at least 3 particles, and every partition of fewer than 3 particles
\* is absent from the returned list, has no sub-file left on disk and has
\* its name in the log as dropped.
C7_MinimumSizeFilter ==
    prep_pc = "prepared" =>
        /\ \A q \in HandedOver :
              q \in DOMAIN fs /\ Len(fs[q]) >= MinParticles
        /\ \A v \in TableKeys : Undersized(v) => Dropped(v)

\* C7, for the tables whose grouping keys get pairwise distinct file names.
C7_FilterWithoutNameClash ==
    (prep_pc = "prepared" /\ ~NameClash) =>
        /\ \A q \in HandedOver :
              q \in DOMAIN fs /\ Len(fs[q]) >= MinParticles
        /\ \A v \in TableKeys : Undersized(v) => Dropped(v)

\* A prepared table with one partition kept and one dropped.
C7_Witness ==
    /\ prep_pc = "prepared"
    /\ ~NameClash
    /\ Len(filtered_files) = 1
    /\ \E v \in TableKeys : Undersized(v) /\ Dropped(v)

----------------------------------------------------------------------------
(* Properties of parallel_process_tomograms                                *)

\* The message text holds the text part as a contiguous piece.
Contains(text, part) ==
    \E k \in 0 .. (Len(text) - Len(part)) :
        SubSeq(text, k + 1, k + Len(part)) = part

Failed == {i \in 1 .. Len(tasks) : tasks[i].status = "err"}

\* C3: the list returned holds exactly one result per submitted file, the
\* i-th being the result computed for the i-th file submitted, whatever the
\* order in which the workers finished.
C3_ResultsInSubmissionOrder ==
    par_pc = "returned" =>
        /\ Len(par_ret) = Len(star_files)
        /\ \A i \in 1 .. Len(star_files) :
              par_ret[i] = FuncValue(star_files[i])

\* Three distinct files, the last submitted finishing first, all returned.
C3_Witness ==
    /\ par_pc = "returned"
    /\ star_files = <<"A", "B", "C">>
    /\ finish_order[1] = 3
    /\ par_ret = <<FuncValue("A"), FuncValue("B"), FuncValue("C")>>

\* C4: a call in which process_func raised for some file never returns a
\* result list: it ends raising ProcessingError whose message holds the
\* message of a worker's exception, and the results already collected for
\* the other files are not handed to the caller.
C4_AllOrNothing ==
    /\ par_pc = "returned" => Failed = {}
    /\ (par_pc \in {"returned", "raised"} /\ Failed # {}) => par_pc = "raised"
    /\ par_pc = "raised" =>
          /\ par_ret = <<>>
          /\ par_err.type = "ProcessingError"
          /\ \E i \in Failed : Contains(par_err.msg, tasks[i].value.msg)

\* A call that raised after it had already collected a sibling's result.
C4_Witness ==
    /\ par_pc = "raised"
    /\ collected # <<>>
    /\ \E i \in 1 .. Len(tasks) : tasks[i].status = "ok" /\ i > Len(collected)

\* The position in finish_order of a task that has finished.
FinishedAt(i) == CHOOSE p \in 1 .. Len(finish_order) : finish_order[p] = i

\* The task whose get() raised: the one after the results collected.
Aborting == Len(collected) + 1

\* C21: when the call raises, the failure reported is that of the failing
\* file earliest in submission order, whichever task failed first in time,
\* and the results of all the files submitted before it had been collected.
C21_FirstFailureInSubmissionOrder ==
    par_pc = "raised" =>
        /\ Aborting \in Failed
        /\ \A i \in Failed : Aborting <= i
        /\ par_err = Wrap("ProcessingError", "Parallel processing failed: ",
                          FuncError(star_files[Aborting]))
        /\ \A j \in 1 .. (Aborting - 1) :
              /\ tasks[j].status = "ok"
              /\ collected[j] = FuncValue(star_files[j])

\* Two files failed, the later one first in time, and a file submitted
\* before both had its result collected.
C21_Witness ==
    /\ par_pc = "raised"
    /\ Aborting = 2
    /\ 3 \in Failed
    /\ FinishedAt(3) < FinishedAt(2)
    /\ collected = <<FuncValue(star_files[1])>>

----------------------------------------------------------------------------
(* Properties of BaseAnalyzer.process                                      *)

\* C5: whatever step of process() fails (prepare, a partition's analysis, a
\* partition's save, combine, report), process() ends raising AnalysisError
\* whose message holds the message of a failure that occurred; no other
\* exception type escapes, and process() never returns once a step failed.
C5_SingleErrorType ==
    /\ proc_pc = "raised" =>
          /\ proc_err.type = "AnalysisError"
          /\ \E f \in faults : Contains(proc_err.msg, f)
    /\ proc_pc = "returned" => faults = {} /\ proc_err = None
    /\ (faults # {} /\ par_pc \in {"idle", "returned", "raised"}
                    /\ proc_pc \notin {"prepare", "parallel"})
          => proc_pc = "raised"

\* A run that raised because a partition's save failed while a sibling
\* partition had been processed to the end.
C5_Witness ==
    /\ proc_pc = "raised"
    /\ par_pc = "raised"
    /\ \E i \in 1 .. Len(tasks) : tasks[i].status = "ok"
    /\ \E i \in 1 .. Len(tasks) :
          /\ tasks[i].status = "err"
          /\ Cause("save", Stem(tasks[i].file)).msg \in faults

Before(j, k) == j < k

EventAt(k, e) == trace[k].e = e

\* C10: in one run of process() prepare completes before any partition is
\* submitted; each partition is saved only after it was analysed; combine
\* starts only after every partition of the prepared list was submitted and
\* its result collected; the report follows combine, and the return follows
\* the report.
C10_StepOrder ==
    /\ Len(tasks) > 0 => prep_pc = "prepared"
    /\ \A k \in 1 .. Len(trace) :
          /\ EventAt(k, "submit") =>
                \E j \in 1 .. (k - 1) : EventAt(j, "prepared")
          /\ EventAt(k, "save") =>
                \E j \in 1 .. (k - 1) : trace[j] = Event("analyze", trace[k].i)
          /\ EventAt(k, "combine") =>
                \A i \in 1 .. Len(filtered_files) :
                    /\ \E j \in 1 .. (k - 1) : trace[j] = Event("submit", i)
                    /\ \E j \in 1 .. (k - 1) : trace[j] = Event("collect", i)
          /\ EventAt(k, "report") =>
                \E j \in 1 .. (k - 1) : EventAt(j, "combine")
          /\ EventAt(k, "return") =>
                \E j \in 1 .. (k - 1) : EventAt(j, "report")
    /\ proc_pc = "returned" => EventAt(Len(trace), "return")

\* A run that returned after two partitions were processed, the second
\* partition finishing before the first.
C10_Witness ==
    /\ proc_pc = "returned"
    /\ Len(filtered_files) = 2
    /\ finish_order = <<2, 1>>

InWorker(i) == tasks[i].status \in {"running", "analyzed"}

\* C11: two partitions that are in the pool's workers at the same time never
\* have the same output file: the file is named by the analyzer type and the
\* partition id, and the ids of the submitted partitions differ.
C11_DisjointOutputPaths ==
    \A i, j \in 1 .. Len(tasks) :
        (i # j /\ InWorker(i) /\ InWorker(j)) =>
            DataFile(analysis_type, tasks[i].file)
                # DataFile(analysis_type, tasks[j].file)

\* C11, for the tables whose grouping keys get pairwise distinct file names.
C11_DisjointWithoutNameClash ==
    ~NameClash =>
        /\ \A i, j \in 1 .. Len(tasks) :
              i # j => DataFile(analysis_type, tasks[i].file)
                          # DataFile(analysis_type, tasks[j].file)
        /\ \A i \in 1 .. Len(tasks) :
              tasks[i].status = "ok" =>
                  /\ DataFile(analysis_type, tasks[i].file) \in DOMAIN fs
                  /\ fs[DataFile(analysis_type, tasks[i].file)]
                        = tasks[i].value.results.rows

----------------------------------------------------------------------------
(* Properties of RibosomeSpatialAnalyzer.run_analysis                      *)

RunOver == run_pc \in {"returned", "raised"}

Called == {started[k] : k \in 1 .. Len(started)}

ErrorLogged ==
    \E k \in 1 .. Len(run_logs) : run_logs[k].level = "error"

\* The titles of the sections of the report after the dataset summary.
SectionTitles == {report[k].title : k \in 2 .. Len(report)}

\* C8: when the process() of one of the three sub-analyzers fails, the
\* failure is caught and logged, the other two are still called, run_analysis
\* returns instead of raising, and the report is written with the sections
\* of the sub-analyzers that succeeded only.
C8_BestEffortAggregation ==
    (RunOver /\ sub_failed # {}) =>
        /\ ErrorLogged
        /\ Called = AnalysisTypes
        /\ run_pc = "returned"
        /\ report # NoReport
        /\ SectionTitles \subseteq {SectionTitle[a] : a \in DOMAIN results}
        /\ sub_failed \cap DOMAIN results = {}

\* C8, what run_analysis does instead: the first failing process() ends the
\* run with that AnalysisError, logged once; no later sub-analyzer is called
\* and no report is written.
C8_FailFast ==
    sub_failed # {} =>
        /\ run_pc = "raised"
        /\ ErrorLogged
        /\ sub_failed = {Current}
        /\ run_err = proc_err
        /\ run_err.type = "AnalysisError"
        /\ DOMAIN results = Called \ sub_failed
        /\ report = NoReport

\* C9: one run of run_analysis makes one prepare_star_data call, and the
\* list of partitions every sub-analyzer's process() gives to the pool is the
\* list that call returned.
C9_PrepareOnceShared ==
    /\ Len(prepare_calls) <= 1
    /\ \A a \in DOMAIN pool_input : pool_input[a] = self_sub_files

\* C9, what run_analysis does instead: every process() called makes its own
\* prepare_star_data call, and each sub-analyzer processes the sub-files of
\* its own output directory.
C9_PrepareInEveryProcess ==
    /\ run_pc \in {"call", "report", "reported", "returned"} =>
          prepare_calls = <<OutputDir("radial")>>
                             \o [k \in 1 .. Len(started) |->
                                   OutputDir(started[k])]
    /\ \A a \in DOMAIN pool_input :
          /\ Len(pool_input[a]) = Len(self_sub_files)
          /\ \A k \in 1 .. Len(pool_input[a]) :
                /\ SubDirOf(pool_input[a][k]) = SubDir(a)
                /\ pool_input[a][k].file = self_sub_files[k].file

----------------------------------------------------------------------------
(* Properties of ClusterAnalyzer and build_adjacency_matrix                *)

\* Particles i and j of the partition are distinct and at most the
\* threshold apart.
Near(i, j) ==
    /\ i # j
    /\ config.threshold >= 0
    /\ Dist2(coords[i], coords[j]) <= config.threshold * config.threshold

RECURSIVE NearReach(_)
NearReach(S) ==
    LET T == S \cup {j \in Idx(n_particles) : \E i \in S : Near(i, j)}
    IN IF T = S THEN S ELSE NearReach(T)

\* The connected components of the partition that reach the minimum size.
Survivors ==
    {c \in {NearReach({i}) : i \in Idx(n_particles)} :
        Cardinality(c) >= config.min_cluster_size}

SeqSet(q) == {q[m] : m \in 1 .. Len(q)}

Largest(S) ==
    IF S = {} THEN 0
    ELSE CHOOSE m \in {Cardinality(c) : c \in S} :
             \A c \in S : Cardinality(c) <= m

ScenarioCoords ==
    [i \in Idx(3) |-> <<<<0, 0, 0>>, <<10, 0, 0>>, <<1000, 0, 0>>>>[i + 1]]

\* C12: _analyze returns the connected components of the thresholded graph
\* that have at least min_cluster_size particles, each once, and n_clusters,
\* total_particles and largest_size are their count, their summed size and
\* their largest size; the three-point scenario gives {0,1} and {2} at
\* minimum size 1 and {0,1} alone at minimum size 2.
C12_SurvivingComponents ==
    ca_pc = "analyzed" =>
        /\ {SeqSet(analysis.clusters[k]) :
               k \in 1 .. Len(analysis.clusters)} = Survivors
        /\ Len(analysis.clusters) = Cardinality(Survivors)
        /\ \A k \in 1 .. Len(analysis.clusters) :
              Cardinality(SeqSet(analysis.clusters[k]))
                 = Len(analysis.clusters[k])
        /\ analysis.statistics.n_clusters = Cardinality(Survivors)
        /\ analysis.statistics.total_particles
              = Cardinality(UNION Survivors)
        /\ analysis.statistics.largest_size = Largest(Survivors)
        /\ (coords = ScenarioCoords /\ config.threshold = 50) =>
              analysis.clusters
                 = IF config.min_cluster_size = 1
                   THEN <<(<<0, 1>>), (<<2>>)>> ELSE <<(<<0, 1>>)>>

\* The scenario analysed at minimum size 2: the far particle's singleton is
\* dropped.
C12_Witness ==
    /\ ca_pc = "analyzed"
    /\ coords = ScenarioCoords
    /\ config = [threshold |-> 50, min_cluster_size |-> 2]
    /\ analysis.clusters = <<(<<0, 1>>)>>
    /\ analysis.statistics.total_particles = 2

\* The results of the partitions in which no cluster reached the minimum.
Sparse == {k \in 1 .. Len(tomo_results) :
              tomo_results[k].results.clusters = <<>>}

\* C13: a partition none of whose clusters reaches min_cluster_size gets an
\* empty cluster list, an empty size distribution and statistics that are
\* all zero (the average a proper zero); it is saved and it is a row of the
\* combined statistics like any other.
C13_NoSurvivorsAllZero ==
    /\ (ca_pc = "analyzed" /\ Survivors = {}) =>
          /\ analysis.clusters = <<>>
          /\ analysis.size_dist = <<>>
          /\ analysis.statistics.n_clusters = 0
          /\ analysis.statistics.total_particles = 0
          /\ analysis.statistics.largest_size = 0
          /\ analysis.statistics.avg_size.num = 0
          /\ analysis.statistics.avg_size.den # 0
    /\ \A k \in Sparse :
          /\ <<tomo_results[k].tomogram, "_clusters">> \in DOMAIN data_files
          /\ data_files[<<tomo_results[k].tomogram, "_clusters">>] = <<>>
          /\ ca_pc \in {"combined", "done"} =>
                /\ ca_combined.combined_stats[k].tomogram
                      = tomo_results[k].tomogram
                /\ ca_combined.combined_stats[k].statistics.n_clusters = 0

\* A finished run of two partitions: the first has only single particles
\* at minimum size 2, the second has a pair.
C13_Witness ==
    /\ ca_pc = "done"
    /\ config.min_cluster_size = 2
    /\ Sparse = {1}
    /\ Len(tomo_results) = 2
    /\ Len(cluster_report) = 2

\* C14: the pooled size list of combine has one entry per surviving cluster
\* of every partition: its length is the sum of the partitions' n_clusters
\* and its sum is the sum of their total_particles, which are the totals of
\* the report.
C14_PooledSizes ==
    ca_pc \in {"combined", "done"} =>
        LET stats == [k \in 1 .. Len(tomo_results) |->
                         tomo_results[k].results.statistics]
            n_clusters == SumSeq([k \in 1 .. Len(stats) |->
                                     stats[k].n_clusters])
            total == SumSeq([k \in 1 .. Len(stats) |->
                                stats[k].total_particles])
        IN /\ Len(ca_combined.size_distribution) = n_clusters
           /\ SumSeq(ca_combined.size_distribution) = total
           /\ ca_pc = "done" =>
                 /\ cluster_report[1].total_clusters = n_clusters
                 /\ cluster_report[1].total_particles = total

\* A finished run of two partitions at minimum size 2 where a partition has
\* a surviving pair next to a dropped single particle.
C14_Witness ==
    /\ ca_pc = "done"
    /\ config.min_cluster_size = 2
    /\ Len(tomo_results) = 2
    /\ \E k \in 1 .. 2 :
          /\ tomo_results[k].results.statistics.n_clusters = 1
          /\ \E m \in 1 .. Len(tomo_results[k].results.size_dist) :
                tomo_results[k].results.size_dist[m].size = 1
    /\ Len(ca_combined.size_distribution) >= 1

\* C19: the adjacency used for clustering holds for (i, j) exactly when
\* i # j and the particles are at most the threshold apart; it is symmetric
\* with a false diagonal, and build_adjacency_matrix gives the same matrix
\* for the same coordinates and threshold.
C19_AdjacencyRelation ==
    kd_adjacency.built =>
        /\ \A i, j \in Idx(n_particles) :
              /\ adjacency_matrix[<<i, j>>] <=> Near(i, j)
              /\ adjacency_matrix[<<i, j>>] = adjacency_matrix[<<j, i>>]
        /\ \A i \in Idx(n_particles) : ~adjacency_matrix[<<i, i>>]
        /\ kd_adjacency.matrix = adjacency_matrix

\* Three particles at threshold 50: one pair exactly 50 apart, one particle
\* far from both.
C19_Witness ==
    /\ kd_adjacency.built
    /\ config.threshold = 50
    /\ n_particles = 3
    /\ \E i, j \in Idx(n_particles) :
          Dist2(coords[i], coords[j]) = 2500 /\ kd_adjacency.matrix[<<j, i>>]
    /\ \E i \in Idx(n_particles) : Isolated(i)

----------------------------------------------------------------------------
(* Properties of OrientationAnalyzer._analyze                              *)

\* The squared distance of particles i and k of the partition.
Apart(i, k) == Dist2(coords[i], coords[k])

\* The coordinates of the scenario: particle 2 is nearer to particle 0
\* than particle 1 is.
NearerThird ==
    [i \in Idx(3) |-> <<<<0, 0, 0>>, <<1000, 0, 0>>, <<10, 0, 0>>>>[i + 1]]

\* C15: in a partition of two or more particles the neighbour chosen for
\* particle i is another particle j whose distance to i is the least of
\* the distances from i to the other particles, that distance is the one
\* reported, and the angle of i is the angle between the directions of i
\* and j (0 when both have the same Euler angles); in the three-particle
\* scenario the neighbour of particle 0 is particle 2.
C15_NearestNeighbour ==
    (oa_pc \in {"nearest", "returned"} /\ NumParticles(coords) >= 2) =>
        /\ \A i \in DOMAIN coords :
              LET j == nearest_neighbors[i]
              IN /\ j \in DOMAIN coords \ {i}
                 /\ \A k \in DOMAIN coords \ {i} : Apart(i, j) <= Apart(i, k)
                 /\ nearest_distances[i] = Apart(i, j)
                 /\ oa_pc = "returned" =>
                       /\ angles[i] = calculate_orientation_angle(
                                         euler_to_vector(eulers[i][1],
                                             eulers[i][2], eulers[i][3]),
                                         euler_to_vector(eulers[j][1],
                                             eulers[j][2], eulers[j][3]))
                       /\ eulers[i] = eulers[j] => angles[i] = 0
        /\ coords = NearerThird => nearest_neighbors[0] = 2

\* The scenario analysed to the end, with particle 0 at a right angle to
\* its neighbour.
C15_Witness ==
    /\ oa_pc = "returned"
    /\ coords = NearerThird
    /\ nearest_neighbors[0] = 2
    /\ nearest_distances[0] = 100
    /\ angles[0] = 90
    /\ eulers[1] = eulers[2]

----------------------------------------------------------------------------
(* Properties of RadialAnalyzer                                            *)

\* The number of bins the configuration asks for.
NumBins == rad_config.max_distance \div rad_config.bin_size

AllZero(values) ==
    /\ Len(values) = NumBins
    /\ \A k \in 1 .. NumBins : values[k] = Zero

\* C16: _analyze on a partition with fewer than 3 particles returns g(r),
\* local density and distance-weighted arrays that hold one entry per bin,
\* every one of them zero, and sets insufficient_particles; with 3 or more
\* particles the flag is False.
C16_InsufficientParticles ==
    rad_pc = "analyzed" =>
        /\ Len(coords) < 3 =>
              /\ AllZero(rad_analysis.g_r)
              /\ AllZero(rad_analysis.local_density)
              /\ AllZero(rad_analysis.distance_weighted)
              /\ rad_analysis.insufficient_particles = TRUE
        /\ Len(coords) >= 3 => rad_analysis.insufficient_particles = FALSE

\* C16: a partition of two particles 12 apart, a distance that no
\* configuration masks, has been analysed.
C16_Witness ==
    /\ rad_pc = "analyzed"
    /\ Len(coords) = 2
    /\ Dist2(coords[1], coords[2]) = 144
    /\ rad_analysis.insufficient_particles

\* The partitions processed so far that were flagged, and the others.
FlaggedNames ==
    {rad_results[k][1] :
        k \in {i \in 1 .. Len(rad_results) :
                  rad_results[i][2].insufficient_particles}}

Kept == SelectSeq(rad_results, LAMBDA tr : ~tr[2].insufficient_particles)

KeptValues(key, bin) == [k \in 1 .. Len(Kept) |-> Kept[k][2][key][bin]]

RECURSIVE KeptDistances(_)
KeptDistances(k) ==
    IF k > Len(Kept) THEN <<>>
    ELSE Kept[k][2].raw_distances \o KeptDistances(k + 1)

WrittenFor(tomogram) ==
    {f \in DOMAIN rad_files : f[1] = "data" /\ f[2][1] = tomogram}

Written(name) == <<"combined", <<name>>>> \in DOMAIN rad_files

\* C17: a partition flagged insufficient_particles has no per-partition
\* file, and the combined result is what the other partitions alone give:
\* the rows, the per-bin mean, values under the standard deviation and
\* count, the pooled raw distances and the density statistics; the flagged
\* partition is in the list of skipped partitions and nowhere else.
C17_SkippedContributesNothing ==
    /\ \A t \in FlaggedNames : WrittenFor(t) = {}
    /\ rad_pc = "combined" =>
          /\ \A r \in 1 .. Len(rad_combined.data) :
                rad_combined.data[r].Tomogram \notin FlaggedNames
          /\ Len(rad_combined.average) = NumBins
          /\ \A g \in 1 .. NumBins :
                \A key \in {"g_r", "local_density", "distance_weighted"} :
                    /\ rad_combined.average[g][key].count = Len(Kept)
                    /\ rad_combined.average[g][key].std_of
                           = KeptValues(key, g)
                    /\ rad_combined.average[g][key].mean
                           = FloatDiv(FloatSum(KeptValues(key, g)),
                                      Num(Len(Kept)))
          /\ LET pooled == FilterDistances(KeptDistances(1), rad_config)
             IN IF pooled = <<>> THEN ~Written("distance_frequency")
                ELSE /\ Written("distance_frequency")
                     /\ rad_files[<<"combined", <<"distance_frequency">>>>]
                            = pooled
          /\ Written("density_statistics")
          /\ LET density == rad_files[<<"combined",
                                        <<"density_statistics">>>>]
             IN /\ Len(density) = Len(Kept)
                /\ \A k \in 1 .. Len(density) :
                      density[k].Tomogram = Kept[k][1]
          /\ \A k \in 1 .. Len(rad_combined.skipped_tomograms) :
                rad_combined.skipped_tomograms[k] \in FlaggedNames
          /\ \A t \in FlaggedNames :
                \E k \in 1 .. Len(rad_combined.skipped_tomograms) :
                    rad_combined.skipped_tomograms[k] = t

\* C17: the results of a flagged partition of two particles 12 apart and of
\* a partition of three particles have been combined.
C17_Witness ==
    /\ rad_pc = "combined"
    /\ \E k \in 1 .. Len(rad_results) :
          /\ rad_results[k][2].insufficient_particles
          /\ rad_results[k][2].raw_distances = <<144>>
    /\ Len(Kept) = 1
    /\ Written("distance_frequency")

----------------------------------------------------------------------------
(* Properties of shell_normalize                                           *)

\* number density times shell volume of bin k, as the call was given them
Denominator(k) ==
    FloatMul(NumberDensity(sn_n, sn_box), ShellVolumes(sn_bins)[k])

Normalized ==
    /\ Len(sn_out.value) = Len(sn_hist)
    /\ \A k \in 1 .. Len(sn_hist) :
          /\ IsFinite(sn_out.value[k])
          /\ sn_out.value[k] =
                IF GreaterZero(Denominator(k))
                THEN FloatDiv(FloatDiv(Num(sn_hist[k]), Num(sn_n)),
                              Denominator(k))
                ELSE Zero

\* C18: shell_normalize never raises and never yields NaN or infinity: for
\* every histogram, bin edges, box volume (0 included) and particle count
\* (0 included), a bin whose denominator is not positive is 0 and every
\* other bin is (count / n_particles) / (number density * shell volume).
C18_ShellNormalizeTotal ==
    sn_pc = "done" => (~sn_out.raised /\ Normalized)

\* What the code does instead: the call raises RadialAnalysisError exactly
\* when the box volume is the Python float 0.0, and returns the normalized
\* array for every other input.
C18_RaisesOnPythonZeroVolume ==
    sn_pc = "done" =>
        IF ~sn_box.numpy /\ sn_box.value = 0
        THEN /\ sn_out.raised
             /\ sn_out.error.type = "RadialAnalysisError"
        ELSE ~sn_out.raised /\ Normalized

----------------------------------------------------------------------------
(* Properties of prepare_star_data before the split                        *)

\* C20: the optics section is optional: prepare_star_data on a table without
\* one raises nothing, scales no coordinate and goes on to the partitions.
C20_OpticsOptional ==
    ~star_sections.optics.present =>
        /\ prep_pc # "raised"
        /\ prepare_err = None
        /\ scaled_by = <<>>

\* What the code does instead: without an optics section apply_shift raises
\* and prepare_star_data raises AnalysisError before any file is written.
C20_MissingOpticsRaises ==
    (~star_sections.optics.present /\ prep_pc # "input") =>
        /\ prep_pc = "raised"
        /\ prepare_err =
              Raised("AnalysisError",
                     <<"Failed to prepare STAR data: ",
                       "Failed to apply shifts: ", "Missing optics data">>)
        /\ fs = <<>>
        /\ sub_files = <<>>

----------------------------------------------------------------------------
(* Properties of a UnionFind object under any calls                        *)

Elements == DOMAIN uf.parent

\* The root of x's tree: where the parent pointers end, if they end.
Root(parent, x) == Follow(parent, x, Cardinality(DOMAIN parent))

Forest(parent) ==
    \A x \in DOMAIN parent : parent[Root(parent, x)] = Root(parent, x)

Roots(parent) == {r \in DOMAIN parent : parent[r] = r}

SetOf(parent, r) == {x \in DOMAIN parent : Root(parent, x) = r}

\* The number of parent pointers between x and its root.
Depth(parent, x) ==
    CHOOSE k \in 0 .. Cardinality(DOMAIN parent) :
        /\ Follow(parent, x, k) = Root(parent, x)
        /\ \A j \in 0 .. (k - 1) : Follow(parent, x, j) # Root(parent, x)

TreeHeight(parent, r) ==
    CHOOSE h \in 0 .. Cardinality(DOMAIN parent) :
        /\ \E x \in SetOf(parent, r) : Depth(parent, x) = h
        /\ \A x \in SetOf(parent, r) : Depth(parent, x) <= h

RECURSIVE SumOver(_, _)
SumOver(f, S) ==
    IF S = {} THEN 0
    ELSE LET e == CHOOSE e \in S : TRUE
         IN f[e] + SumOver(f, S \ {e})

OnPath(parent, x) ==
    {Follow(parent, x, k) : k \in 0 .. Cardinality(DOMAIN parent)}

\* C22: after any calls of union and find on n elements, size[r] of every
\* root r is the number of elements whose root is r, and the sizes of the
\* roots add up to n.
C22_SizeTracking ==
    /\ \A r \in Roots(uf.parent) :
          uf.size[r] = Cardinality(SetOf(uf.parent, r))
    /\ SumOver(uf.size, Roots(uf.parent)) = n_particles

C22_Witness ==
    /\ uf_last.op = "union"
    /\ Roots(uf_last.before.parent) # Roots(uf.parent)
    /\ \E r \in Roots(uf.parent) : uf.size[r] = 3
    /\ Cardinality(Roots(uf.parent)) = 2

\* The two roots the last union found, and whether it swapped them.
LastPx == Root(uf_last.before.parent, uf_last.x)

LastPy == Root(uf_last.before.parent, uf_last.y)

LastLinked == uf_last.op = "union" /\ LastPx # LastPy

\* C23: the parent pointers always form a forest whose only cycles are the
\* self-loops of the roots; a union puts the root of lower rank under the
\* root of higher rank and raises a rank, by one, only when the two ranks
\* were equal; the height of every tree is at most the rank of its root.
C23_ForestAndRank ==
    /\ Forest(uf.parent)
    /\ \A r \in Roots(uf.parent) : TreeHeight(uf.parent, r) <= uf.rank[r]
    /\ LastLinked =>
          LET b == uf_last.before
              top == IF b.rank[LastPx] < b.rank[LastPy] THEN LastPy ELSE LastPx
              low == IF b.rank[LastPx] < b.rank[LastPy] THEN LastPx ELSE LastPy
          IN /\ uf.parent[low] = top
             /\ uf.parent[top] = top
             /\ b.rank[low] <= b.rank[top]
             /\ \A e \in Elements \ {top} : uf.rank[e] = b.rank[e]
             /\ uf.rank[top] = IF b.rank[low] = b.rank[top]
                               THEN b.rank[top] + 1
                               ELSE b.rank[top]

C23_Witness ==
    /\ LastLinked
    /\ uf_last.before.rank[LastPx] < uf_last.before.rank[LastPy]
    /\ uf.parent[LastPx] = LastPy
    /\ uf.rank = uf_last.before.rank

\* A tree as high as its root's rank allows, with a path of two pointers.
C23_HeightTwo ==
    \E r \in Roots(uf.parent) :
        TreeHeight(uf.parent, r) = 2 /\ uf.rank[r] = 2

\* C24: find(x) returns the root x had before the call, changes no set, no
\* rank and no size, and changes the parent pointers of the elements on the
\* path from x to that root only, each of which now points at the root.
C24_FindFrame ==
    uf_last.op = "find" =>
        LET b == uf_last.before
            r == Root(b.parent, uf_last.x)
        IN /\ uf_last.ret = r
           /\ uf.rank = b.rank
           /\ uf.size = b.size
           /\ \A e \in Elements : Root(uf.parent, e) = Root(b.parent, e)
           /\ \A e \in Elements :
                 uf.parent[e] = IF e \in OnPath(b.parent, uf_last.x)
                                THEN r
                                ELSE b.parent[e]

C24_Witness ==
    /\ uf_last.op = "find"
    /\ uf.parent # uf_last.before.parent
    /\ Depth(uf_last.before.parent, uf_last.x) = 2
    /\ uf.parent[uf_last.x] = uf_last.ret

----------------------------------------------------------------------------
(* Properties of the two clusterings                                       *)

ClusterSets == {Members(k) : k \in 1 .. Len(clusters)}

DfsSets == {SeqRange(dfs_clusters[k]) : k \in 1 .. Len(dfs_clusters)}

\* C25: for every symmetric adjacency matrix the clusters of the union-find
\* find_particle_clusters are, as sets, the connected components the
\* recursive dfs collects from each unvisited particle, whatever the order
\* in which the adjacent pairs were merged.
C25_UnionFindEqualsDfs ==
    cpc = "compared" =>
        /\ ClusterSets = DfsSets
        /\ ClusterSets = {ReachFrom({i}) : i \in Idx(n_particles)}
        /\ Len(clusters) = Len(dfs_clusters)

C25_Witness ==
    /\ cpc = "compared"
    /\ pairs # TriuPairs(adjacency_matrix, n_particles)
    /\ adjacency_matrix[<<0, 1>>] /\ adjacency_matrix[<<1, 2>>]
    /\ ~adjacency_matrix[<<0, 2>>]
    /\ dfs_clusters = <<(<<0, 1, 2>>)>>
    /\ ClusterSets = {{0, 1, 2}}

----------------------------------------------------------------------------
(* Properties of the table after partitioning                              *)

HasPrepared == run_pc \in {"call", "report", "reported", "returned"}

ReportWritten == run_pc \in {"reported", "returned"}

\* C26: partitioning leaves the table as it was: after prepare_star_data
\* has returned, the particles of the prepared data are every row of the
\* input table, and the dataset summary of the composite report counts the
\* particles and the tomograms of the whole table.
C26_TableNotModified ==
    /\ HasPrepared => processed_star = AllRows(tag_column)
    /\ ReportWritten =>
          /\ report[1].total = Len(tag_column)
          /\ report[1].tomograms = Len(Unique(tag_column))

\* What the code does instead: classify_star assigns each subset to
\* star_data['particles'] of the caller's dictionary, so the prepared data
\* hold the rows of the last partition written and the summary counts those.
C26_LastPartitionOnly ==
    LET keys == Unique(tag_column)
        last == Subset(tag_column, partial_match, keys[Len(keys)])
    IN /\ (HasPrepared /\ tag_column # <<>>) => processed_star = last
       /\ (ReportWritten /\ tag_column # <<>>) =>
             /\ report[1].total = Len(last)
             /\ report[1].tomograms = 1

----------------------------------------------------------------------------
(* Properties of the sub-file paths of classify_star                       *)

Classified == prep_pc \in {"classify_returned", "classified"}

\* The sub-file of every key holds, after the return, the rows of that key.
NoneOverwritten ==
    \A v \in TableKeys :
        \E q \in PartitionPaths :
            /\ q.file = SubFile(q.dir, v).file
            /\ RowsIn(q) = Subset(tag_column, partial_match, v)

\* C27: classify_star writes one sub-file per distinct grouping key and
\* distinct keys get distinct paths: the returned list has as many distinct
\* paths as the table has keys, and no partition's file is overwritten by
\* the file of another partition.
C27_DistinctSubFilePaths ==
    Classified =>
        /\ Len(sub_files) = Cardinality(TableKeys)
        /\ Cardinality(PartitionPaths) = Cardinality(TableKeys)
        /\ NoneOverwritten

\* What the code does instead: one list entry per key, and the paths are
\* distinct and the files whole exactly when no two keys share a file name.
C27_DistinctUnlessNameClash ==
    Classified =>
        /\ Len(sub_files) = Cardinality(TableKeys)
        /\ NameClash <=> Cardinality(PartitionPaths) < Cardinality(TableKeys)
        /\ NameClash <=> ~NoneOverwritten

----------------------------------------------------------------------------
(* Properties of process() when no partition is left                       *)

NothingToProcess ==
    /\ prep_pc = "prepared"
    /\ proc_pc # "prepare"
    /\ filtered_files = <<>>

\* C28: when the minimum-size filter leaves no partition, process() of the
\* radial, cluster and orientation analyzers never reaches its return: the
\* radial and orientation analyzers stop in _combine_results, the cluster
\* analyzer in _generate_report, and the run ends raising AnalysisError
\* with the message of that failure.
C28_EmptyListRaises ==
    NothingToProcess =>
        /\ proc_pc \in {"prepared", "parallel", "combined", "raised"}
        /\ proc_pc = "combined" =>
              /\ analysis_type = "cluster"
              /\ ReportRaises(analysis_type, combined_results.of)
        /\ (proc_pc = "parallel" /\ ParallelReturned) =>
              \/ analysis_type = "cluster"
              \/ CombineRaises(analysis_type, par_ret)
        /\ proc_pc = "raised" =>
              /\ proc_err.type = "AnalysisError"
              /\ par_ret = <<>>
              /\ faults # {}

\* A table whose partitions were all too small: the cluster analyzer
\* combined nothing and raised while writing its report.
C28_Witness ==
    /\ NothingToProcess
    /\ tag_column # <<>>
    /\ analysis_type = "cluster"
    /\ proc_pc = "raised"
    /\ proc_err = ProcessCatch(EmptyFailure("cluster"))
    /\ faults = {EmptyFailure("cluster").msg}

----------------------------------------------------------------------------
(* Properties of the orientation report                                    *)

BucketTotal ==
    SumSeq([k \in 1 .. Len(oa_report.angular_distribution) |->
               oa_report.angular_distribution[k]])

\* The measurements whose angle is 180 degrees: opposite directions.
Antiparallel == {i \in DOMAIN angles : angles[i] = 180}

\* C29: every nearest-neighbour angle between 0 and 180 degrees, the two
\* bounds included, is counted in one bucket of the angular distribution,
\* so the bucket counts add up to the total number of measurements.
C29_BucketsCoverAllAngles ==
    oa_report.written =>
        /\ \A i \in DOMAIN angles : 0 <= angles[i] /\ angles[i] <= 180
        /\ BucketTotal = oa_report.total_measurements

\* What the code does instead: the last bucket is [170, 180), an angle of
\* exactly 180 degrees is in no bucket, and the counts fall short of the
\* total by the number of such measurements.
C29_AntiparallelNotCounted ==
    oa_report.written =>
        /\ Len(oa_report.angular_distribution) = 18
        /\ BucketTotal + Cardinality(Antiparallel)
              = oa_report.total_measurements
        /\ oa_report.total_measurements = NumParticles(coords)

----------------------------------------------------------------------------
(* Properties of the box volume of RadialAnalyzer                          *)

\* The extent of the partition along an axis, at least 1.
Extent(axis) ==
    LET column == {coords[p][axis] : p \in 1 .. Len(coords)}
        low == CHOOSE m \in column : \A x \in column : m <= x
        high == CHOOSE m \in column : \A x \in column : x <= m
    IN IF high - low < 1 THEN 1 ELSE high - low

ExpectedVolume ==
    IF Len(coords) < 2 THEN 1 ELSE Extent(1) * Extent(2) * Extent(3)

BoxVolume ==
    calculate_box_volume(coords, TriuDistances(coords, 1, 2), Len(coords))

FallbackLogged ==
    \E k \in 1 .. Len(rad_logs) : rad_logs[k].level = "warning"

VolumeAtLeastOne ==
    /\ BoxVolume.value = ExpectedVolume
    /\ BoxVolume.value >= 1
    /\ ~BoxVolume.fallback
    /\ ~FallbackLogged
    /\ rad_analysis.particle_density
          = FloatDiv(Num(Len(coords)), Num(ExpectedVolume))
    /\ IsFinite(rad_analysis.particle_density)

\* C30 as stated: the box volume is 1.0 below two particles and else the
\* product of the three ranges floored at 1.0, so at least 1.0; the
\* fallback is never taken; the particle density is finite and positive.
C30_DensityAlwaysPositive ==
    rad_pc = "analyzed" =>
        /\ VolumeAtLeastOne
        /\ GreaterZero(rad_analysis.particle_density)

\* C30, amended: the same volume, no fallback and a finite density, which
\* is positive for a partition of one or more particles and 0.0 for an
\* empty one.
C30_VolumeAtLeastOne ==
    rad_pc = "analyzed" =>
        /\ VolumeAtLeastOne
        /\ Len(coords) >= 1 => GreaterZero(rad_analysis.particle_density)
        /\ Len(coords) = 0 => rad_analysis.particle_density = Zero

\* Three particles in the plane z = 0: the z range of 0 is floored to 1 and
\* the volume is 6 * 12 * 1.
C30_Witness ==
    /\ rad_pc = "analyzed"
    /\ Len(coords) = 3
    /\ BoxVolume.value = 72
    /\ rad_analysis.particle_density = Frac(3, 72)
    /\ ~FallbackLogged

====
